---- MODULE Spec2Model ----
(***************************************************************************)
(* Model of the LinkBy6 Stripe server (server.js): the dynamic product     *)
(* catalog cache (ProductCatalogService), the endpoints that read or       *)
(* refresh it, the Stripe webhook endpoint and POST /create-subscription.  *)
(*                                                                         *)
(* Every request is a task.  A task runs synchronously up to its next      *)
(* `await` of a provider call; each action below is one such run.  Tasks   *)
(* interleave only at those awaits, as on the single-threaded Node.js      *)
(* event loop.                                                             *)
(*                                                                         *)
(* Strings that the code inspects character by character (product names,   *)
(* display_order) are tuples of one-character strings; the features        *)
(* metadata is a tuple of JSON tokens.                                     *)
(***************************************************************************)
EXTENDS Integers, Sequences, FiniteSets, TLC

VARIABLES
  cache,         \* productCatalogCache
  provider,      \* the products and prices held by Stripe
  now,           \* Date.now()
  tasks,         \* the requests being served; slot 0 starts as the startup fetch
  refreshCount,  \* number of fetchProducts calls started so far
  profileStore,  \* the Supabase tables
  config         \* process.env: webhook secret, Supabase configured

vars == <<cache, provider, now, tasks, refreshCount, profileStore, config>>

-----------------------------------------------------------------------------
(* Bounds of the model                                                     *)

MaxTasks == 1
MaxTicks == 2
MaxRefreshes == 2
StartTime == 1000

Tasks == 1..MaxTasks

-----------------------------------------------------------------------------
(* Character-level helpers                                                 *)

UpperChars == <<"A","B","C","D","E","F","G","H","I","J","K","L","M",
                "N","O","P","Q","R","S","T","U","V","W","X","Y","Z">>
LowerChars == <<"a","b","c","d","e","f","g","h","i","j","k","l","m",
                "n","o","p","q","r","s","t","u","v","w","x","y","z">>
DigitChars == <<"0","1","2","3","4","5","6","7","8","9">>
WhiteChars == {" ", "\t"}

IndexIn(c, s) == IF \E i \in 1..Len(s) : s[i] = c
                 THEN CHOOSE i \in 1..Len(s) : s[i] = c
                 ELSE 0

\* String.prototype.toLowerCase, one character
ToLowerChar(c) == IF IndexIn(c, UpperChars) > 0
                  THEN LowerChars[IndexIn(c, UpperChars)]
                  ELSE c

\* name.toLowerCase()
ToLowerCase(s) == [i \in 1..Len(s) |-> ToLowerChar(s[i])]

\* s.replace(/\s+/g, '-'): every maximal run of whitespace becomes one '-'
RECURSIVE ReplaceWhitespaceRuns(_)
ReplaceWhitespaceRuns(s) ==
  IF s = <<>> THEN <<>>
  ELSE IF Head(s) \in WhiteChars
       THEN IF Len(s) > 1 /\ s[2] \in WhiteChars
            THEN ReplaceWhitespaceRuns(Tail(s))
            ELSE <<"-">> \o ReplaceWhitespaceRuns(Tail(s))
       ELSE <<Head(s)>> \o ReplaceWhitespaceRuns(Tail(s))

NaN == [nan |-> TRUE, val |-> 0]

RECURSIVE SkipWhitespace(_)
SkipWhitespace(s) == IF s # <<>> /\ Head(s) \in WhiteChars
                     THEN SkipWhitespace(Tail(s))
                     ELSE s

RECURSIVE DigitPrefixValue(_, _)
DigitPrefixValue(s, acc) ==
  IF s # <<>> /\ IndexIn(Head(s), DigitChars) > 0
  THEN DigitPrefixValue(Tail(s), 10 * acc + (IndexIn(Head(s), DigitChars) - 1))
  ELSE acc

\* parseInt(s): leading whitespace, optional sign, longest digit prefix;
\* NaN when no digit follows
ParseInt(s) ==
  LET t == SkipWhitespace(s)
      neg == t # <<>> /\ Head(t) = "-"
      u == IF t # <<>> /\ Head(t) \in {"-", "+"} THEN Tail(t) ELSE t
  IN IF u = <<>> \/ IndexIn(Head(u), DigitChars) = 0
     THEN NaN
     ELSE [nan |-> FALSE,
           val |-> IF neg THEN 0 - DigitPrefixValue(u, 0)
                   ELSE DigitPrefixValue(u, 0)]

-----------------------------------------------------------------------------
(* JSON.parse of the features metadata, on tokens                          *)

JsonStringTokens == {"\"Email support\"", "\"Basic analytics\""}

\* the tokens between the brackets: literal (, literal)*
RECURSIVE JsonElementsOk(_)
JsonElementsOk(toks) ==
  IF toks = <<>> THEN FALSE
  ELSE /\ Head(toks) \in JsonStringTokens
       /\ \/ Len(toks) = 1
          \/ /\ Len(toks) >= 3
             /\ toks[2] = ","
             /\ JsonElementsOk(SubSeq(toks, 3, Len(toks)))

RECURSIVE JsonElements(_)
JsonElements(toks) ==
  IF toks = <<>> THEN <<>>
  ELSE IF Head(toks) = "," THEN JsonElements(Tail(toks))
       ELSE <<Head(toks)>> \o JsonElements(Tail(toks))

\* JSON.parse: ok = FALSE stands for the SyntaxError it throws
JSONParse(toks) ==
  IF Len(toks) >= 2 /\ toks[1] = "[" /\ toks[Len(toks)] = "]"
  THEN LET inner == SubSeq(toks, 2, Len(toks) - 1)
       IN IF inner = <<>> THEN [ok |-> TRUE, value |-> <<>>]
          ELSE IF JsonElementsOk(inner)
               THEN [ok |-> TRUE, value |-> JsonElements(inner)]
               ELSE [ok |-> FALSE, value |-> <<>>]
  ELSE IF Len(toks) = 1 /\ toks[1] \in JsonStringTokens
       THEN [ok |-> TRUE, value |-> toks]
       ELSE [ok |-> FALSE, value |-> <<>>]

-----------------------------------------------------------------------------
(* Provider Gateway: what the Stripe list calls return                     *)

\* stripe.products.list({active: true, ...}).data
StripeProductsList(store) == SelectSeq(store.products, LAMBDA p : p.active)

\* The product field of a listed price: the bare identifier, or the
\* expanded product object when 'data.product' is in the expand option
ProductRef(price, expand) ==
  [expanded |-> "data.product" \in expand, id |-> price.product]

\* stripe.prices.list({active: true, expand}).data
StripePricesList(store, expand) ==
  LET act == SelectSeq(store.prices, LAMBDA q : q.active)
  IN [i \in 1..Len(act) |->
        [act[i] EXCEPT !.product = ProductRef(act[i], expand)]]

\* the expand option the code passes to stripe.prices.list
PricesExpand == {"data.product"}

\* price.product === product.id; an object is never === a string
StrictEqualsId(ref, id) == ~ref.expanded /\ ref.id = id

-----------------------------------------------------------------------------
(* Catalog Organizer                                                       *)

HasKey(m, k) == k \in DOMAIN m

\* obj[key] = value on a JS object used as a map
Put(m, k, v) == [x \in DOMAIN m \cup {k} |-> IF x = k THEN v ELSE m[x]]

EmptyMap == <<>>

DefaultDisplayOrder == 999

PlanIdOf(product) ==
  IF HasKey(product.metadata, "plan_id") /\ product.metadata.plan_id # <<>>
  THEN product.metadata.plan_id
  ELSE ReplaceWhitespaceRuns(ToLowerCase(product.name))

PlanTypeOf(product) ==
  IF HasKey(product.metadata, "plan_type")
  THEN product.metadata.plan_type
  ELSE "subscription"

\* parseInt(product.metadata.display_order) || 999
DisplayOrderOf(product) ==
  LET r == IF HasKey(product.metadata, "display_order")
           THEN ParseInt(product.metadata.display_order)
           ELSE NaN
  IN IF r.nan \/ r.val = 0 THEN DefaultDisplayOrder ELSE r.val

\* prices.filter(price => price.product === product.id)
ProductPrices(product, prices) ==
  SelectSeq(prices, LAMBDA q : StrictEqualsId(q.product, product.id))

IntervalKey(interval) == IF interval = "month" THEN "monthly" ELSE "yearly"

PriceVariant(price) ==
  IF HasKey(price, "recurring")
  THEN [priceId |-> price.id, unitAmount |-> price.unit_amount,
        currency |-> price.currency,
        interval |-> price.recurring.interval,
        intervalCount |-> price.recurring.interval_count]
  ELSE [priceId |-> price.id, unitAmount |-> price.unit_amount,
        currency |-> price.currency]

PriceKey(price) ==
  IF HasKey(price, "recurring") THEN IntervalKey(price.recurring.interval)
  ELSE "one_time"

\* a loop that keeps the first price of every key
RECURSIVE PriceVariations_FirstWins(_, _)
PriceVariations_FirstWins(productPrices, acc) ==
  IF productPrices = <<>> THEN acc
  ELSE PriceVariations_FirstWins(
         Tail(productPrices),
         IF HasKey(acc, PriceKey(Head(productPrices))) THEN acc
         ELSE Put(acc, PriceKey(Head(productPrices)),
                  PriceVariant(Head(productPrices))))

\* productPrices.forEach(...): later prices overwrite earlier ones
RECURSIVE PriceVariations(_, _)
PriceVariations(productPrices, acc) ==
  IF productPrices = <<>> THEN acc
  ELSE PriceVariations(Tail(productPrices),
                       Put(acc, PriceKey(Head(productPrices)),
                           PriceVariant(Head(productPrices))))

\* a features parse that falls back to [] on a value that is not JSON
FeaturesParse_Lenient(product) ==
  IF /\ HasKey(product.metadata, "features")
     /\ product.metadata.features # <<>>
     /\ JSONParse(product.metadata.features).ok
  THEN JSONParse(product.metadata.features)
  ELSE [ok |-> TRUE, value |-> <<>>]

FeaturesParse(product) ==
  IF HasKey(product.metadata, "features") /\ product.metadata.features # <<>>
  THEN JSONParse(product.metadata.features)
  ELSE [ok |-> TRUE, value |-> <<>>]

OrganizedProduct(product, prices) ==
  [id |-> product.id, name |-> product.name,
   description |-> product.description,
   planId |-> PlanIdOf(product), planType |-> PlanTypeOf(product),
   displayOrder |-> DisplayOrderOf(product),
   features |-> FeaturesParse(product).value,
   metadata |-> product.metadata,
   prices |-> PriceVariations(ProductPrices(product, prices), EmptyMap),
   active |-> product.active]

\* a sort that puts a plan in front of the plans it ties with
RECURSIVE InsertByDisplayOrder_TiesFirst(_, _)
InsertByDisplayOrder_TiesFirst(sorted, p) ==
  IF sorted = <<>> THEN <<p>>
  ELSE IF sorted[Len(sorted)].displayOrder < p.displayOrder
       THEN Append(sorted, p)
       ELSE Append(InsertByDisplayOrder_TiesFirst(
                     SubSeq(sorted, 1, Len(sorted) - 1), p),
                   sorted[Len(sorted)])

\* Array.prototype.sort((a, b) => a.displayOrder - b.displayOrder): stable
RECURSIVE InsertByDisplayOrder(_, _)
InsertByDisplayOrder(sorted, p) ==
  IF sorted = <<>> THEN <<p>>
  ELSE IF sorted[Len(sorted)].displayOrder <= p.displayOrder
       THEN Append(sorted, p)
       ELSE Append(InsertByDisplayOrder(SubSeq(sorted, 1, Len(sorted) - 1), p),
                   sorted[Len(sorted)])

RECURSIVE SortByDisplayOrder(_, _)
SortByDisplayOrder(list, acc) ==
  IF list = <<>> THEN acc
  ELSE SortByDisplayOrder(Tail(list), InsertByDisplayOrder(acc, Head(list)))

\* a loop that returns early for a product without a matching price
RECURSIVE OrganizeLoop_SkipsUnpriced(_, _, _)
OrganizeLoop_SkipsUnpriced(products, prices, acc) ==
  IF products = <<>> THEN acc
  ELSE IF ~FeaturesParse(Head(products)).ok
       THEN [ok |-> FALSE, products |-> <<>>, prices |-> EmptyMap]
       ELSE LET op == OrganizedProduct(Head(products), prices)
            IN OrganizeLoop_SkipsUnpriced(
                 Tail(products), prices,
                 IF op.prices = EmptyMap THEN acc
                 ELSE [ok |-> TRUE,
                       products |-> Append(acc.products, op),
                       prices |-> Put(acc.prices, op.planId, op.prices)])

\* a loop that keeps the lookup entry of the first product of a planId
RECURSIVE OrganizeLoop_FirstWins(_, _, _)
OrganizeLoop_FirstWins(products, prices, acc) ==
  IF products = <<>> THEN acc
  ELSE IF ~FeaturesParse(Head(products)).ok
       THEN [ok |-> FALSE, products |-> <<>>, prices |-> EmptyMap]
       ELSE LET op == OrganizedProduct(Head(products), prices)
            IN OrganizeLoop_FirstWins(
                 Tail(products), prices,
                 [ok |-> TRUE,
                  products |-> Append(acc.products, op),
                  prices |-> IF HasKey(acc.prices, op.planId) THEN acc.prices
                             ELSE Put(acc.prices, op.planId, op.prices)])

\* products.forEach(...): ok = FALSE when JSON.parse threw in the loop
RECURSIVE OrganizeLoop(_, _, _)
OrganizeLoop(products, prices, acc) ==
  IF products = <<>> THEN acc
  ELSE IF ~FeaturesParse(Head(products)).ok
       THEN [ok |-> FALSE, products |-> <<>>, prices |-> EmptyMap]
       ELSE LET op == OrganizedProduct(Head(products), prices)
            IN OrganizeLoop(Tail(products), prices,
                            [ok |-> TRUE,
                             products |-> Append(acc.products, op),
                             prices |-> Put(acc.prices, op.planId, op.prices)])

organizeProductCatalog(products, prices) ==
  LET r == OrganizeLoop(products, prices,
                        [ok |-> TRUE, products |-> <<>>, prices |-> EmptyMap])
  IN IF r.ok
     THEN [r EXCEPT !.products = SortByDisplayOrder(r.products, <<>>)]
     ELSE r

-----------------------------------------------------------------------------
(* Catalog Cache                                                           *)

\* lastUpdated: null
NullTime == 0

\* cacheExpiry: 5 * 60 * 1000
CacheExpiryMs == 5 * 60 * 1000

\* The module-level productCatalogCache before the first refresh.  The
\* field pass records, for each stored field, the refresh that wrote it
\* (0: none), and the refresh and lastUpdated of the snapshot that this one
\* replaced; it is history, not program state.
InitialCache ==
  [products |-> <<>>, prices |-> EmptyMap, lastUpdated |-> NullTime,
   cacheExpiry |-> CacheExpiryMs,
   pass |-> [products |-> 0, prices |-> 0, lastUpdated |-> 0,
             replaced |-> 0, replacedAt |-> NullTime]]

\* a cache update that forgets to store the new prices lookup
UpdateCache_KeepsPrices(old, organizedCatalog, time, pass) ==
  [old EXCEPT !.products = organizedCatalog.products,
              !.lastUpdated = time,
              !.pass.products = pass, !.pass.lastUpdated = pass]

\* a cache update that leaves an empty product list unstamped
UpdateCache_EmptyUnstamped(old, organizedCatalog, time, pass) ==
  [products |-> organizedCatalog.products,
   prices |-> organizedCatalog.prices,
   lastUpdated |-> IF organizedCatalog.products = <<>> THEN NullTime
                   ELSE time,
   cacheExpiry |-> CacheExpiryMs,
   pass |-> [products |-> pass, prices |-> pass, lastUpdated |-> pass,
             replaced |-> old.pass.products,
             replacedAt |-> old.lastUpdated]]

\* a cache update that keeps the snapshot of a refresh that started later
UpdateCache_NewestStartWins(old, organizedCatalog, time, pass) ==
  IF old.pass.products > pass THEN old
  ELSE [products |-> organizedCatalog.products,
        prices |-> organizedCatalog.prices,
        lastUpdated |-> time,
        cacheExpiry |-> CacheExpiryMs,
        pass |-> [products |-> pass, prices |-> pass, lastUpdated |-> pass,
                  replaced |-> old.pass.products,
                  replacedAt |-> old.lastUpdated]]

\* productCatalogCache = { products, prices, lastUpdated: Date.now(), ... }
UpdateCache(old, organizedCatalog, time, pass) ==
  [products |-> organizedCatalog.products,
   prices |-> organizedCatalog.prices,
   lastUpdated |-> time,
   cacheExpiry |-> CacheExpiryMs,
   pass |-> [products |-> pass, prices |-> pass, lastUpdated |-> pass,
             replaced |-> old.pass.products,
             replacedAt |-> old.lastUpdated]]

\* a catch block that falls back to the empty placeholder
CacheAfterFailedFetch_Reset(old) == InitialCache

\* the catch block of fetchProducts logs and rethrows
CacheAfterFailedFetch(old) == old

\* a staleness test that only asks whether a snapshot exists
CacheExpired_NoTtl(c, time) == c.lastUpdated = NullTime

\* the staleness test with >= in place of >
CacheExpired_AtTtl(c, time) ==
  c.lastUpdated = NullTime \/ (time - c.lastUpdated) >= c.cacheExpiry

\* !lastUpdated || (now - lastUpdated) > cacheExpiry
CacheExpired(c, time) ==
  c.lastUpdated = NullTime \/ (time - c.lastUpdated) > c.cacheExpiry

\* the refresh condition without the forceRefresh test
NeedsRefresh_NoForce(forceRefresh, c, time) ==
  c.lastUpdated = NullTime \/ (time - c.lastUpdated) > c.cacheExpiry
    \/ Len(c.products) = 0

\* the refresh condition without the staleness and emptiness tests
NeedsRefresh_ForceOnly(forceRefresh, c, time) == forceRefresh

\* a single-flight refresh condition: no fetch while one is in flight
NeedsRefresh_SingleFlight(forceRefresh, c, time) ==
  /\ forceRefresh \/ CacheExpired(c, time) \/ Len(c.products) = 0
  /\ \A u \in DOMAIN tasks :
       tasks[u].pc \notin {"awaitProducts", "awaitPrices"}

\* forceRefresh || cacheExpired || products.length === 0
NeedsRefresh(forceRefresh, c, time) ==
  forceRefresh \/ CacheExpired(c, time) \/ Len(c.products) = 0

\* validatePriceId, once the catalog is at hand: the priceId or null
NullPriceId == "<null>"

\* validatePriceId without the test for a missing billing cycle
ValidatePriceIdResult_NoCycleTest(catalog, planId, billingCycle) ==
  IF ~HasKey(catalog.prices, planId) THEN NullPriceId
  ELSE IF ~HasKey(catalog.prices[planId], billingCycle) THEN "<undefined>"
       ELSE catalog.prices[planId][billingCycle].priceId

ValidatePriceIdResult(catalog, planId, billingCycle) ==
  IF ~HasKey(catalog.prices, planId) THEN NullPriceId
  ELSE IF ~HasKey(catalog.prices[planId], billingCycle) THEN NullPriceId
       ELSE catalog.prices[planId][billingCycle].priceId

\* the price test without its !validPriceId half, on a request that sends
\* no usable priceId
PriceRejected_NullAccepted(validPriceId, priceId) ==
  validPriceId # NullPriceId /\ validPriceId # priceId

NoPlan == [id |-> "<undefined>", planId |-> <<>>, prices |-> EmptyMap]

\* getProductByPlanId, once the catalog is at hand:
\* catalog.products.find(product => product.planId === planId)
GetProductByPlanIdResult(catalog, planId) ==
  LET hits == {k \in 1..Len(catalog.products) :
                 catalog.products[k].planId = planId}
  IN IF hits = {} THEN NoPlan
     ELSE catalog.products[CHOOSE k \in hits : \A j \in hits : k <= j]

\* !validPriceId || validPriceId !== priceId
PriceRejected(validPriceId, priceId) ==
  validPriceId = NullPriceId \/ validPriceId # priceId

-----------------------------------------------------------------------------
(* Webhook ingress                                                         *)

CatalogEventTypes == {"product.created", "product.updated", "product.deleted",
                      "price.created", "price.updated", "price.deleted"}

SubscriptionEventTypes == {"customer.subscription.updated",
                           "customer.subscription.deleted"}

InvoiceEventTypes == {"invoice.payment_succeeded", "invoice.payment_failed"}

\* the case labels of handleWebhookEvent whose handlers write to Supabase
StoreEventTypes ==
  {"customer.subscription.created"} \cup SubscriptionEventTypes
    \cup InvoiceEventTypes

\* the case labels with price.deleted left out
IsCatalogEvent_NoPriceDeleted(type) ==
  type \in CatalogEventTypes \ {"price.deleted"}

\* the case labels of handleWebhookEvent that refresh the catalog
IsCatalogEvent(type) == type \in CatalogEventTypes

NoSecret == "<unset>"

\* an endpoint that parses the body without verifying the signature
ConstructEventOk_Unverified(sigSecret, endpointSecret) == TRUE

\* stripe.webhooks.constructEvent(body, sig, endpointSecret): the signature
\* verifies when it was computed with the endpoint's secret
ConstructEventOk(sigSecret, endpointSecret) == sigSecret = endpointSecret

-----------------------------------------------------------------------------
(* The provider's catalog: sample products and prices                      *)

NoMetadata == <<>>

ProdEssential ==
  [id |-> "prod_1", name |-> <<"E", "s", " ", "M">>,
   description |-> "Essential", active |-> TRUE,
   metadata |-> [plan_id |-> <<"e", "s">>, display_order |-> <<"2">>,
                 features |-> <<"[", "\"Email support\"", "]">>]]

ProdGrowth ==
  [id |-> "prod_2", name |-> <<"G", "o", " ", "\t", "X">>,
   description |-> "Growth", active |-> TRUE,
   metadata |-> [display_order |-> <<"1">>]]

ProdPlain ==
  [id |-> "prod_3", name |-> <<"P", "r", "o">>,
   description |-> "Pro", active |-> TRUE, metadata |-> NoMetadata]

ProdBadFeatures ==
  [id |-> "prod_4", name |-> <<"B", "a", "d">>,
   description |-> "Bad", active |-> TRUE,
   metadata |-> [plan_id |-> <<"b">>, features |-> <<"not-json">>]]

ProdArchived ==
  [id |-> "prod_5", name |-> <<"O", "l", "d">>,
   description |-> "Old", active |-> FALSE,
   metadata |-> [plan_id |-> <<"o">>]]

PriceEssentialMonthly ==
  [id |-> "price_1", product |-> "prod_1", active |-> TRUE,
   unit_amount |-> 4900, currency |-> "usd",
   recurring |-> [interval |-> "month", interval_count |-> 1]]

PriceGrowthYearly ==
  [id |-> "price_2", product |-> "prod_2", active |-> TRUE,
   unit_amount |-> 29900, currency |-> "usd",
   recurring |-> [interval |-> "year", interval_count |-> 1]]

PriceEssentialOnce ==
  [id |-> "price_3", product |-> "prod_1", active |-> TRUE,
   unit_amount |-> 9900, currency |-> "usd"]

CatalogNone == [products |-> <<>>, prices |-> <<>>, customers |-> <<>>]

CatalogOne ==
  [products |-> <<ProdEssential>>, prices |-> <<PriceEssentialMonthly>>,
   customers |-> <<>>]

CatalogTwo ==
  [products |-> <<ProdEssential, ProdArchived, ProdGrowth>>,
   prices |-> <<PriceEssentialMonthly, PriceGrowthYearly, PriceEssentialOnce>>,
   customers |-> <<>>]

CatalogBad ==
  [products |-> <<ProdPlain, ProdBadFeatures>>,
   prices |-> <<PriceEssentialMonthly>>, customers |-> <<>>]

ProviderCatalogs == {CatalogNone, CatalogOne, CatalogTwo, CatalogBad}

-----------------------------------------------------------------------------
(* Requests                                                                *)

WebhookSecret == "whsec_live"
SigSecrets == {WebhookSecret, "whsec_other"}
EventTypes == CatalogEventTypes \cup StoreEventTypes
                \cup {"charge.succeeded"}
UserIds == {"u1"}
NoUser == "<none>"
NullStr == "<null>"

NoReq ==
  [fieldsOk |-> TRUE, planId |-> <<>>, billingCycle |-> "monthly",
   priceId |-> "", userId |-> NoUser, eventType |-> "", sigSecret |-> "",
   subscriptionId |-> "", subStatus |-> "", email |-> ""]

SubscriptionRequests ==
  {[NoReq EXCEPT !.fieldsOk = f, !.planId = pl, !.billingCycle = bc,
                 !.priceId = pr] :
     f \in BOOLEAN, pl \in {<<"e", "s">>, <<"z">>},
     bc \in {"monthly", "weekly"}, pr \in {"price_1", "price_9"}}

\* webhooks whose handling makes no Profile Store call
WebhookRequests ==
  {[NoReq EXCEPT !.eventType = ty, !.sigSecret = sg] :
     ty \in EventTypes \ StoreEventTypes, sg \in SigSecrets}

\* subscription.status in the events that carry it
StatusIn(type) ==
  IF type = "customer.subscription.created" THEN "incomplete" ELSE "past_due"

\* verified events about the subscription sub_1, whose metadata holds a
\* userId or none, and invoice events of an invoice without subscription
StoreEventRequests ==
  {[NoReq EXCEPT !.eventType = ty, !.sigSecret = WebhookSecret,
                 !.userId = u, !.subscriptionId = "sub_1",
                 !.subStatus = StatusIn(ty)] :
     ty \in StoreEventTypes, u \in UserIds \cup {NoUser}}
  \cup
  {[NoReq EXCEPT !.eventType = ty, !.sigSecret = WebhookSecret] :
     ty \in InvoiceEventTypes}

\* express-validator: every field check passed
ValidationPassed(req) ==
  req.fieldsOk /\ req.billingCycle \in {"monthly", "yearly"}

\* no subscription object has been received from the provider
NoSubscription == [id |-> "", status |-> "", cancel_at_period_end |-> FALSE]

IdleTask ==
  [kind |-> "none", pc |-> "idle", site |-> "none", force |-> FALSE,
   refreshes |-> 0, pass |-> 0, raw |-> <<>>,
   error |-> "<none>", caught |-> "<none>", status |-> 0,
   catalog |-> InitialCache,
   validPriceId |-> NullPriceId, validate |-> "none", handled |-> FALSE,
   req |-> NoReq, effects |-> {}, subscription |-> NoSubscription,
   existing |-> FALSE, customer |-> 0]

\* app.listen's callback has called initializeProductCatalog, which is
\* awaiting stripe.products.list
StartupTask ==
  [IdleTask EXCEPT !.kind = "startup", !.pc = "awaitProducts",
                   !.site = "startup", !.force = TRUE, !.refreshes = 1,
                   !.pass = 1]

-----------------------------------------------------------------------------
(* getProductCatalog and the code that runs when it returns                *)

Done(task, status) == [task EXCEPT !.pc = "done", !.status = status,
                                   !.raw = <<>>]

NoError == "<none>"

\* an endpoint whose catch calls fetchProducts again
CatalogEndpointResponse_Retries(task, err, catalog) ==
  IF err = NoError THEN Done([task EXCEPT !.catalog = catalog], 200)
  ELSE [task EXCEPT !.pc = "awaitProducts", !.refreshes = @ + 1,
                    !.raw = <<>>]

\* GET /products and POST /refresh-catalog: res.json(...) or the catch's 500
CatalogEndpointResponse(task, err, catalog) ==
  IF err = NoError THEN Done([task EXCEPT !.catalog = catalog], 200)
  ELSE Done([task EXCEPT !.error = err], 500)

\* a handler without the try/catch: the endpoint's catch answers 500
WebhookAfterRefresh_Surfaced(task, err) ==
  IF err = NoError THEN Done(task, 200)
  ELSE Done([task EXCEPT !.error = err], 500)

\* handleWebhookEvent's try/catch around the refresh, then
\* res.json({received: true})
WebhookAfterRefresh(task, err) == Done([task EXCEPT !.caught = err], 200)

\* startup without the try/catch: the error leaves the listen callback
StartupAfterRefresh_Rethrows(task, err) ==
  IF err = NoError THEN Done(task, 0)
  ELSE Done([task EXCEPT !.error = err], 0)

\* initializeProductCatalog's try/catch: startup goes on either way
StartupAfterRefresh(task, err) == Done([task EXCEPT !.caught = err], 0)

RECURSIVE getProductCatalog(_, _, _, _, _, _)
RECURSIVE Resume(_, _, _, _, _, _)

\* The task calls getProductCatalog(forceRefresh) from the call site `site`
\* with the cache c at time `time`; rc is the number of refreshes so far.
\* The result is the task at its next await, or finished.
getProductCatalog(task, forceRefresh, site, c, time, rc) ==
  LET t1 == [task EXCEPT !.site = site, !.force = forceRefresh]
  IN IF NeedsRefresh(forceRefresh, c, time)
     THEN [t1 EXCEPT !.pc = "awaitProducts", !.refreshes = @ + 1,
                     !.pass = rc + 1]
     ELSE Resume(t1, NoError, c, c, time, rc)

\* getProductCatalog has returned `catalog` (err = NoError) or thrown err to
\* the call site task.site; the caller runs on to its next await or to its
\* response
Resume(task, err, catalog, c, time, rc) ==
  CASE task.site \in {"products", "refresh"} ->
         CatalogEndpointResponse(task, err, catalog)
    [] task.site = "webhook" -> WebhookAfterRefresh(task, err)
    [] task.site = "startup" -> StartupAfterRefresh(task, err)
    [] task.site = "validate" ->
         IF err # NoError
         THEN Done([task EXCEPT !.error = err, !.validate = "threw"], 500)
         ELSE LET v == ValidatePriceIdResult(catalog, task.req.planId,
                                             task.req.billingCycle)
                  t1 == [task EXCEPT !.validPriceId = v,
                                     !.validate = "returned"]
              IN IF PriceRejected(v, task.req.priceId)
                 THEN getProductCatalog(t1, FALSE, "availablePlans",
                                        c, time, rc)
                 ELSE [t1 EXCEPT !.pc = "awaitCustomerList",
                                 !.effects = {"customers.list"}]
    [] task.site = "availablePlans" ->
         IF err = NoError THEN Done(task, 400)
         ELSE Done([task EXCEPT !.error = err], 500)

\* handleWebhookEvent(event), up to its first await
handleWebhookEvent(task, c, time, rc, cfg) ==
  LET t1 == [task EXCEPT !.handled = TRUE]
  IN CASE IsCatalogEvent(t1.req.eventType) ->
            getProductCatalog(t1, TRUE, "webhook", c, time, rc)
       [] t1.req.eventType \in StoreEventTypes \ InvoiceEventTypes ->
            IF cfg.supabase /\ t1.req.userId # NoUser
            THEN [t1 EXCEPT !.pc = "awaitProfileSelect"]
            ELSE Done(t1, 200)
       [] t1.req.eventType \in InvoiceEventTypes ->
            IF cfg.supabase /\ t1.req.subscriptionId # ""
            THEN [t1 EXCEPT !.pc = "awaitSubscriptionRetrieve"]
            ELSE Done(t1, 200)
       [] OTHER -> Done(t1, 200)

\* POST /webhook, up to its first await
WebhookEndpoint(task, c, time, rc, cfg) ==
  IF cfg.endpointSecret = NoSecret THEN Done(task, 400)
  ELSE IF ~ConstructEventOk(task.req.sigSecret, cfg.endpointSecret)
       THEN Done(task, 400)
       ELSE handleWebhookEvent(task, c, time, rc, cfg)

\* POST /create-subscription, up to its first await
CreateSubscriptionEndpoint(task, c, time, rc) ==
  IF ~ValidationPassed(task.req) THEN Done(task, 400)
  ELSE getProductCatalog(task, FALSE, "validate", c, time, rc)

-----------------------------------------------------------------------------
(* Profile Store                                                           *)

EmptyStore == [profiles |-> EmptyMap, subscriptions |-> <<>>]

\* { ...row, ...updates }
Merge(row, updates) ==
  [k \in DOMAIN row \cup DOMAIN updates |->
     IF k \in DOMAIN updates THEN updates[k] ELSE row[k]]

\* supabase.from('business_profiles').upsert({user_id, ...updates})
updateSupabaseProfile(store, userId, updates) ==
  LET row == IF HasKey(store.profiles, userId) THEN store.profiles[userId]
             ELSE [user_id |-> userId]
  IN [store EXCEPT !.profiles = Put(@, userId, Merge(row, updates))]

\* the business_subscriptions rows of a stripe_subscription_id
SubscriptionRows(store, subscriptionId) ==
  {i \in 1..Len(store.subscriptions) :
     store.subscriptions[i].stripe_subscription_id = subscriptionId}

\* .select('subscription_id').eq('stripe_subscription_id', id).single():
\* the row when exactly one matches; with no row or with several rows the
\* result is the error PGRST116, which the code passes over
ExistingSubscription(store, subscriptionId) ==
  Cardinality(SubscriptionRows(store, subscriptionId)) = 1

\* createOrUpdateBusinessSubscription, once its select has told whether the
\* subscription exists: update the rows of this stripe_subscription_id, or
\* insert one
createOrUpdateBusinessSubscription(store, userId, subscriptionData, existingSubscription) ==
  LET record == [user_id |-> userId, status |-> subscriptionData.status,
                 stripe_subscription_id |-> subscriptionData.subscriptionId]
      rows == store.subscriptions
  IN IF existingSubscription
     THEN [store EXCEPT !.subscriptions =
             [i \in 1..Len(rows) |->
                IF rows[i].stripe_subscription_id = record.stripe_subscription_id
                THEN record ELSE rows[i]]]
     ELSE [store EXCEPT !.subscriptions = Append(rows, record)]

\* activateBusinessProfile: update ... .eq('user_id', userId); no row is an
\* empty result, not an error
activateBusinessProfile(store, userId, subscriptionData) ==
  IF HasKey(store.profiles, userId)
  THEN [store EXCEPT !.profiles =
          Put(@, userId,
              Merge(store.profiles[userId],
                    [business_status |-> "Active", is_active |-> "true",
                     stripe_customer_id |-> subscriptionData.customerId]))]
  ELSE store

\* subscription.customer
CustomerOf(req) == "cus_1"

\* the subscriptionData that the handlers of the store events build
SubscriptionDataOf(req) ==
  [subscriptionId |-> req.subscriptionId,
   customerId |-> CustomerOf(req),
   status |-> CASE req.eventType = "customer.subscription.deleted" ->
                     "canceled"
                [] req.eventType = "invoice.payment_succeeded" -> "active"
                [] req.eventType = "invoice.payment_failed" -> "past_due"
                [] OTHER -> req.subStatus]

\* the profile updates that the handlers pass to updateSupabaseProfile
ProfileUpdatesOf(req) ==
  CASE req.eventType = "customer.subscription.deleted" ->
         [subscription_status |-> "canceled", subscription_id |-> NullStr,
          business_status |-> "Not Active", is_active |-> "false"]
    [] req.eventType = "customer.subscription.created" ->
         [subscription_status |-> req.subStatus,
          subscription_id |-> req.subscriptionId,
          stripe_customer_id |-> CustomerOf(req)]
    [] req.eventType = "invoice.payment_failed" ->
         [subscription_status |-> "past_due",
          business_status |-> "Not Active", is_active |-> "false"]
    [] OTHER -> [subscription_status |-> req.subStatus]

-----------------------------------------------------------------------------
(* Initial state                                                           *)

AllTasks == 0..MaxTasks

\* the clock is observed one cache lifetime apart
TickMs == CacheExpiryMs

LastTime == StartTime + MaxTicks * TickMs

\* process.env of a fully configured deployment
FullConfig == [endpointSecret |-> WebhookSecret, supabase |-> TRUE]

Configs == [endpointSecret : {NoSecret, WebhookSecret}, supabase : BOOLEAN]

\* The server is listening and its startup fetch is in flight
InitWith(configs) ==
  /\ cache = InitialCache
  /\ provider \in ProviderCatalogs
  /\ now = StartTime
  /\ tasks = [t \in AllTasks |-> IF t = 0 THEN StartupTask ELSE IdleTask]
  /\ refreshCount = 1
  /\ profileStore = EmptyStore
  /\ config \in configs

Init == InitWith({FullConfig})

InitAnyConfig == InitWith(Configs)

-----------------------------------------------------------------------------
(* Actions                                                                 *)

\* Every response has been sent.  A finished task stays visible for one
\* state, then its slot is released by Close before anything else runs.
Settled == \A u \in AllTasks : tasks[u].pc # "done"

\* The slots of Tasks are interchangeable: an arriving request takes the
\* lowest of them that is idle, or the slot of the startup fetch.
Free(t) ==
  /\ t \in AllTasks /\ tasks[t].pc = "idle" /\ Settled
  /\ \A u \in Tasks : u < t => tasks[u].pc # "idle"

\* a request that may start a refresh is accepted only while the bound on
\* refreshes is not reached
Room == refreshCount < MaxRefreshes

\* a webhook is accepted only while business_subscriptions holds fewer
\* rows than this
MaxRows == 2

\* the step took task t from `tasks[t]` to `new`
Step(t, new) ==
  /\ tasks' = [tasks EXCEPT ![t] = new]
  /\ refreshCount' = IF new.pc = "awaitProducts"
                        /\ new.pass = refreshCount + 1
                     THEN refreshCount + 1 ELSE refreshCount

\* GET /products and GET /products?refresh=true
GetProducts(t, forceRefresh) ==
  /\ Free(t)
  /\ Room \/ ~NeedsRefresh(forceRefresh, cache, now)
  /\ Step(t, getProductCatalog([IdleTask EXCEPT !.kind = "products"],
                               forceRefresh, "products", cache, now,
                               refreshCount))
  /\ UNCHANGED <<cache, provider, now, profileStore, config>>

\* POST /refresh-catalog
RefreshCatalog(t) ==
  /\ Free(t) /\ Room
  /\ Step(t, getProductCatalog([IdleTask EXCEPT !.kind = "refresh"],
                               TRUE, "refresh", cache, now, refreshCount))
  /\ UNCHANGED <<cache, provider, now, profileStore, config>>

\* POST /webhook
Webhook(t, req) ==
  /\ Free(t) /\ Room
  /\ Len(profileStore.subscriptions) < MaxRows
  /\ Step(t, WebhookEndpoint([IdleTask EXCEPT !.kind = "webhook",
                                              !.req = req],
                             cache, now, refreshCount, config))
  /\ UNCHANGED <<cache, provider, now, profileStore, config>>

\* POST /create-subscription
CreateSubscription(t, req) ==
  /\ Free(t) /\ Room
  /\ Step(t, CreateSubscriptionEndpoint([IdleTask EXCEPT !.kind = "createSub",
                                                         !.req = req],
                                        cache, now, refreshCount))
  /\ UNCHANGED <<cache, provider, now, profileStore, config>>

\* fetchProducts: stripe.products.list resolved; stripe.prices.list is called
ProductsListOk(t) ==
  /\ Settled
  /\ tasks[t].pc = "awaitProducts"
  /\ Step(t, [tasks[t] EXCEPT !.pc = "awaitPrices",
                              !.raw = StripeProductsList(provider)])
  /\ UNCHANGED <<cache, provider, now, profileStore, config>>

\* fetchProducts: stripe.products.list rejected
ProductsListFails(t) ==
  /\ Settled
  /\ tasks[t].pc = "awaitProducts"
  /\ cache' = CacheAfterFailedFetch(cache)
  /\ Step(t, Resume(tasks[t], "products.list failed", cache', cache', now,
                    refreshCount))
  /\ UNCHANGED <<provider, now, profileStore, config>>

\* fetchProducts: stripe.prices.list resolved; organize, publish, return
PricesListOk(t) ==
  /\ Settled
  /\ tasks[t].pc = "awaitPrices"
  /\ LET organizedCatalog ==
           organizeProductCatalog(tasks[t].raw,
                                  StripePricesList(provider, PricesExpand))
     IN IF organizedCatalog.ok
        THEN /\ cache' = UpdateCache(cache, organizedCatalog, now,
                                     tasks[t].pass)
             /\ Step(t, Resume(tasks[t], NoError, cache', cache', now,
                               refreshCount))
        ELSE /\ cache' = CacheAfterFailedFetch(cache)
             /\ Step(t, Resume(tasks[t], "SyntaxError", cache', cache', now,
                               refreshCount))
  /\ UNCHANGED <<provider, now, profileStore, config>>

\* fetchProducts: stripe.prices.list rejected
PricesListFails(t) ==
  /\ Settled
  /\ tasks[t].pc = "awaitPrices"
  /\ cache' = CacheAfterFailedFetch(cache)
  /\ Step(t, Resume(tasks[t], "prices.list failed", cache', cache', now,
                    refreshCount))
  /\ UNCHANGED <<provider, now, profileStore, config>>

\* the tables that the step from store to store' has changed
Changed(store, new, table) == IF new # store THEN {table} ELSE {}

\* handlePaymentSucceeded / Failed: stripe.subscriptions.retrieve resolved;
\* req.userId stands for the metadata.userId of that subscription
SubscriptionRetrieveOk(t) ==
  /\ Settled
  /\ tasks[t].pc = "awaitSubscriptionRetrieve"
  /\ Step(t, IF tasks[t].req.userId # NoUser
             THEN [tasks[t] EXCEPT !.pc = "awaitProfileSelect"]
             ELSE Done(tasks[t], 200))
  /\ UNCHANGED <<cache, provider, now, profileStore, config>>

\* stripe.subscriptions.retrieve rejected; the handler's catch logs it
SubscriptionRetrieveFails(t) ==
  /\ Settled
  /\ tasks[t].pc = "awaitSubscriptionRetrieve"
  /\ Step(t, Done([tasks[t] EXCEPT !.caught = "subscriptions.retrieve failed"],
                  200))
  /\ UNCHANGED <<cache, provider, now, profileStore, config>>

\* createOrUpdateBusinessSubscription: the business profile was looked up
\* (found or not); the plan is looked up next
ProfileSelectOk(t) ==
  /\ Settled
  /\ tasks[t].pc = "awaitProfileSelect"
  /\ Step(t, [tasks[t] EXCEPT !.pc = "awaitPlanSelect"])
  /\ UNCHANGED <<cache, provider, now, profileStore, config>>

\* createOrUpdateBusinessSubscription: the plan lookup ended (a planError
\* is only logged); the existing subscription is looked up next
PlanSelectOk(t) ==
  /\ Settled
  /\ tasks[t].pc = "awaitPlanSelect"
  /\ Step(t, [tasks[t] EXCEPT !.pc = "awaitExistingSelect"])
  /\ UNCHANGED <<cache, provider, now, profileStore, config>>

\* createOrUpdateBusinessSubscription: the lookup of the existing
\* subscription ended; the update or the insert is sent
ExistingSelectOk(t) ==
  /\ Settled
  /\ tasks[t].pc = "awaitExistingSelect"
  /\ Step(t, [tasks[t] EXCEPT
                 !.pc = "awaitSubscriptionWrite",
                 !.existing = ExistingSubscription(
                                profileStore, tasks[t].req.subscriptionId)])
  /\ UNCHANGED <<cache, provider, now, profileStore, config>>

\* createOrUpdateBusinessSubscription: the subscription record was written;
\* the handler goes on to its profile write
SubscriptionWriteOk(t) ==
  /\ Settled
  /\ tasks[t].pc = "awaitSubscriptionWrite"
  /\ profileStore' = createOrUpdateBusinessSubscription(
                        profileStore, tasks[t].req.userId,
                        SubscriptionDataOf(tasks[t].req), tasks[t].existing)
  /\ Step(t, [tasks[t] EXCEPT
                 !.pc = IF tasks[t].req.eventType = "invoice.payment_succeeded"
                        THEN "awaitProfileActivate" ELSE "awaitProfileWrite",
                 !.effects = @ \cup Changed(profileStore, profileStore',
                                            "business_subscriptions")])
  /\ UNCHANGED <<cache, provider, now, config>>

\* updateSupabaseProfile: the profile was upserted
ProfileWriteOk(t) ==
  /\ Settled
  /\ tasks[t].pc = "awaitProfileWrite"
  /\ profileStore' = updateSupabaseProfile(profileStore, tasks[t].req.userId,
                                           ProfileUpdatesOf(tasks[t].req))
  /\ Step(t, Done([tasks[t] EXCEPT
                      !.effects = @ \cup Changed(profileStore, profileStore',
                                                 "business_profiles")],
                  200))
  /\ UNCHANGED <<cache, provider, now, config>>

\* handlePaymentSucceeded: activateBusinessProfile returned the activated
\* row, or null when no row matched
ProfileActivateOk(t) ==
  /\ Settled
  /\ tasks[t].pc = "awaitProfileActivate"
  /\ profileStore' = activateBusinessProfile(profileStore,
                                             tasks[t].req.userId,
                                             SubscriptionDataOf(tasks[t].req))
  /\ Step(t, Done([tasks[t] EXCEPT
                      !.effects = @ \cup Changed(profileStore, profileStore',
                                                 "business_profiles")],
                  200))
  /\ UNCHANGED <<cache, provider, now, config>>

StoreError == "Supabase call failed"

\* a Profile Store call failed; the handler's catch logs it
StoreWriteFails(t) ==
  /\ Settled
  /\ tasks[t].pc \in {"awaitProfileSelect", "awaitExistingSelect",
                      "awaitSubscriptionWrite", "awaitProfileWrite",
                      "awaitProfileActivate"}
  /\ Step(t, Done([tasks[t] EXCEPT !.caught = StoreError], 200))
  /\ UNCHANGED <<cache, provider, now, profileStore, config>>

\* an error that leaves app.listen's async callback is an unhandled
\* rejection, which ends the process
Crashed == tasks[0].kind = "startup" /\ tasks[0].error # NoError

\* the response is out; the slot is free for the next request
Close(t) ==
  /\ ~Crashed
  /\ tasks[t].pc = "done"
  /\ tasks' = [tasks EXCEPT ![t] = IdleTask]
  /\ UNCHANGED <<cache, provider, now, refreshCount, profileStore, config>>

\* time passes
Tick ==
  /\ Settled
  /\ now < LastTime
  /\ now' = now + TickMs
  /\ UNCHANGED <<cache, provider, tasks, refreshCount, profileStore, config>>

\* products or prices are edited in the Stripe dashboard
ProviderChange ==
  /\ Settled
  /\ provider' \in ProviderCatalogs \ {provider}
  /\ UNCHANGED <<cache, now, tasks, refreshCount, profileStore, config>>

\* the steps of a refresh in flight and the release of a slot
Fetching ==
  \/ \E t \in AllTasks : ProductsListOk(t)
  \/ \E t \in AllTasks : ProductsListFails(t)
  \/ \E t \in AllTasks : PricesListOk(t)
  \/ \E t \in AllTasks : PricesListFails(t)
  \/ \E t \in AllTasks : Close(t)

\* the catalog endpoints
Next ==
  \/ \E t \in Tasks, f \in BOOLEAN : GetProducts(t, f)
  \/ \E t \in Tasks : RefreshCatalog(t)
  \/ Tick
  \/ ProviderChange
  \/ Fetching

Spec == Init /\ [][Next]_vars

\* the Profile Store calls of createOrUpdateBusinessSubscription and
\* updateSupabaseProfile in flight
StoreCalls ==
  \/ \E t \in AllTasks : ProfileSelectOk(t)
  \/ \E t \in AllTasks : PlanSelectOk(t)
  \/ \E t \in AllTasks : ExistingSelectOk(t)
  \/ \E t \in AllTasks : SubscriptionWriteOk(t)
  \/ \E t \in AllTasks : ProfileWriteOk(t)
  \/ \E t \in AllTasks : ProfileActivateOk(t)
  \/ \E t \in AllTasks : StoreWriteFails(t)

\* the webhook endpoint, under every configuration
NextWebhook ==
  \/ \E t \in Tasks, req \in WebhookRequests : Webhook(t, req)
  \/ Fetching

SpecWebhook == InitAnyConfig /\ [][NextWebhook]_vars

\* the deployments that verify webhooks, with and without Supabase
StoreConfigs == {c \in Configs : c.endpointSecret = WebhookSecret}

InitStore == InitWith(StoreConfigs) /\ provider = CatalogOne

\* the webhooks about subscriptions and invoices; a request is served in
\* any free slot, that of the startup fetch included once it is over
NextStore ==
  \/ \E t \in AllTasks, req \in StoreEventRequests : Webhook(t, req)
  \/ \E t \in AllTasks : SubscriptionRetrieveOk(t)
  \/ \E t \in AllTasks : SubscriptionRetrieveFails(t)
  \/ StoreCalls
  \/ Fetching

SpecStore == InitStore /\ [][NextStore]_vars

\* the subscription endpoint
NextSubscribe ==
  \/ \E t \in Tasks, req \in SubscriptionRequests : CreateSubscription(t, req)
  \/ Tick
  \/ Fetching

SpecSubscribe == Init /\ [][NextSubscribe]_vars

-----------------------------------------------------------------------------
(* organizeProductCatalog on its own, over bounded inputs                  *)

MaxProducts == 3

ProdTwin ==
  [id |-> "prod_6", name |-> <<"T", "w">>,
   description |-> "Twin", active |-> TRUE,
   metadata |-> [plan_id |-> <<"e", "s">>, display_order |-> <<"0">>]]

ProdNegative ==
  [id |-> "prod_7", name |-> <<"P", "R", "O">>,
   description |-> "Promo", active |-> TRUE,
   metadata |-> [display_order |-> <<"-", "1">>]]

ProdLabelled ==
  [id |-> "prod_8", name |-> <<"L">>,
   description |-> "Labelled", active |-> TRUE,
   metadata |-> [display_order |-> <<"x", "1">>]]

ProdBare ==
  [id |-> "prod_9", name |-> <<"B", "a", "r", "e">>,
   description |-> "Bare", active |-> TRUE,
   metadata |-> [plan_type |-> "addon"]]

PriceTwinYearly ==
  [id |-> "price_4", product |-> "prod_6", active |-> TRUE,
   unit_amount |-> 39900, currency |-> "usd",
   recurring |-> [interval |-> "year", interval_count |-> 1]]

PriceEssentialWeekly ==
  [id |-> "price_5", product |-> "prod_1", active |-> TRUE,
   unit_amount |-> 1500, currency |-> "usd",
   recurring |-> [interval |-> "week", interval_count |-> 1]]

PriceNegativeMonthly ==
  [id |-> "price_6", product |-> "prod_7", active |-> TRUE,
   unit_amount |-> 900, currency |-> "usd",
   recurring |-> [interval |-> "month", interval_count |-> 1]]

PriceEssentialDaily ==
  [id |-> "price_7", product |-> "prod_1", active |-> TRUE,
   unit_amount |-> 300, currency |-> "usd",
   recurring |-> [interval |-> "day", interval_count |-> 1]]

OrganizerProducts ==
  {ProdEssential, ProdGrowth, ProdPlain, ProdBadFeatures, ProdTwin,
   ProdNegative, ProdLabelled, ProdBare}

OrganizerPriceLists ==
  {<<>>,
   <<PriceEssentialMonthly, PriceGrowthYearly, PriceEssentialOnce>>,
   <<PriceEssentialMonthly, PriceTwinYearly, PriceNegativeMonthly>>,
   <<PriceEssentialWeekly, PriceTwinYearly>>,
   <<PriceEssentialWeekly, PriceEssentialOnce, PriceEssentialDaily,
     PriceEssentialMonthly>>}

\* the lists of at most n products, each product at most once
ProductLists(n) ==
  {s \in UNION {[1..k -> OrganizerProducts] : k \in 0..n} :
     \A i, j \in 1..Len(s) : i # j => s[i] # s[j]}

\* what the two list calls may hand to organizeProductCatalog; the price
\* references are plain identifiers or expanded objects
OrganizerInputs ==
  [products : ProductLists(MaxProducts), prices : OrganizerPriceLists,
   expand : {{}, PricesExpand}]

InitOrganize ==
  /\ cache = InitialCache
  /\ provider \in OrganizerInputs
  /\ now = StartTime
  /\ tasks = [t \in AllTasks |-> IdleTask]
  /\ refreshCount = 0
  /\ profileStore = EmptyStore
  /\ config = FullConfig

\* organizeProductCatalog(products.data, prices.data) returned; the result
\* is stored as fetchProducts stores it
OrganizeReturns ==
  /\ cache.lastUpdated = NullTime /\ tasks[0].pc = "idle"
  /\ LET organizedCatalog ==
           organizeProductCatalog(provider.products,
                                  StripePricesList(provider, provider.expand))
     IN /\ organizedCatalog.ok
        /\ cache' = UpdateCache(cache, organizedCatalog, now, 1)
  /\ UNCHANGED <<provider, now, tasks, refreshCount, profileStore, config>>

\* organizeProductCatalog threw the SyntaxError of JSON.parse
OrganizeThrows ==
  /\ cache.lastUpdated = NullTime /\ tasks[0].pc = "idle"
  /\ ~organizeProductCatalog(provider.products,
                             StripePricesList(provider, provider.expand)).ok
  /\ tasks' = [tasks EXCEPT ![0] =
                 Done([IdleTask EXCEPT !.kind = "organize",
                                       !.error = "SyntaxError"], 0)]
  /\ UNCHANGED <<cache, provider, now, refreshCount, profileStore, config>>

NextOrganize == OrganizeReturns \/ OrganizeThrows

SpecOrganize == InitOrganize /\ [][NextOrganize]_vars

-----------------------------------------------------------------------------
(* POST /cancel-subscription                                               *)

\* the statuses a subscription that can still be updated may have
LiveSubscriptionStatuses == {"active", "trialing", "past_due"}

CancelRequests ==
  {[NoReq EXCEPT !.fieldsOk = f, !.subscriptionId = "sub_1", !.userId = u] :
     f \in BOOLEAN, u \in UserIds \cup {NoUser}}

\* POST /cancel-subscription, up to its first await
CancelSubscriptionEndpoint(task) ==
  IF ~task.req.fieldsOk THEN Done(task, 400)
  ELSE [task EXCEPT !.pc = "awaitSubscriptionUpdate"]

\* the handler after stripe.subscriptions.update resolved
CancelAfterUpdate(task, subscription, cfg) ==
  LET t1 == [task EXCEPT !.subscription = subscription]
  IN IF cfg.supabase /\ task.req.userId # NoUser
     THEN [t1 EXCEPT !.pc = "awaitCancelProfileWrite"]
     ELSE Done(t1, 200)

\* the profile columns that POST /cancel-subscription writes
CancelProfileUpdates(subscription) == [subscription_status |-> "canceled"]

CancelSubscription(t, req) ==
  /\ Free(t)
  /\ Step(t, CancelSubscriptionEndpoint([IdleTask EXCEPT !.kind = "cancel",
                                                         !.req = req]))
  /\ UNCHANGED <<cache, provider, now, profileStore, config>>

\* stripe.subscriptions.update(id, {cancel_at_period_end: true}) resolved
\* with the subscription, whose status is still the one it had
SubscriptionUpdateOk(t, status) ==
  /\ Settled
  /\ tasks[t].pc = "awaitSubscriptionUpdate"
  /\ Step(t, CancelAfterUpdate(tasks[t],
                               [id |-> tasks[t].req.subscriptionId,
                                status |-> status,
                                cancel_at_period_end |-> TRUE],
                               config))
  /\ UNCHANGED <<cache, provider, now, profileStore, config>>

\* stripe.subscriptions.update rejected: the endpoint's catch answers 500
SubscriptionUpdateFails(t) ==
  /\ Settled
  /\ tasks[t].pc = "awaitSubscriptionUpdate"
  /\ Step(t, Done([tasks[t] EXCEPT !.error = "subscriptions.update failed"],
                  500))
  /\ UNCHANGED <<cache, provider, now, profileStore, config>>

\* updateSupabaseProfile(userId, {subscription_status: 'canceled'}) resolved
CancelProfileWriteOk(t) ==
  /\ Settled
  /\ tasks[t].pc = "awaitCancelProfileWrite"
  /\ profileStore' =
       updateSupabaseProfile(profileStore, tasks[t].req.userId,
                             CancelProfileUpdates(tasks[t].subscription))
  /\ Step(t, Done(tasks[t], 200))
  /\ UNCHANGED <<cache, provider, now, config>>

\* updateSupabaseProfile threw; the inner catch logs a warning
CancelProfileWriteFails(t) ==
  /\ Settled
  /\ tasks[t].pc = "awaitCancelProfileWrite"
  /\ Step(t, Done([tasks[t] EXCEPT !.caught = "Supabase update failed"],
                  200))
  /\ UNCHANGED <<cache, provider, now, profileStore, config>>

NextCancel ==
  \/ \E t \in Tasks, req \in CancelRequests : CancelSubscription(t, req)
  \/ \E t \in Tasks, s \in LiveSubscriptionStatuses :
       SubscriptionUpdateOk(t, s)
  \/ \E t \in Tasks : SubscriptionUpdateFails(t)
  \/ \E t \in Tasks : CancelProfileWriteOk(t)
  \/ \E t \in Tasks : CancelProfileWriteFails(t)
  \/ Fetching

SpecCancel == InitAnyConfig /\ [][NextCancel]_vars

-----------------------------------------------------------------------------
(* createOrRetrieveCustomer and POST /create-payment-intent                *)

Emails == {"a@example.com", "b@example.com"}

PaymentIntentRequests ==
  {[NoReq EXCEPT !.fieldsOk = f, !.email = e] :
     f \in BOOLEAN, e \in Emails}

\* stripe.customers.list({email, limit: 1}).data
StripeCustomersList(store, email) ==
  LET hits == SelectSeq(store.customers, LAMBDA c : c.email = email)
  IN IF hits = <<>> THEN <<>> ELSE <<hits[1]>>

\* stripe.customers.create({email, metadata}): a customer with a new id
StripeCustomersCreate(store, email) ==
  [store EXCEPT !.customers =
     Append(@, [id |-> Len(store.customers) + 1, email |-> email])]

\* POST /create-payment-intent, up to its first await
CreatePaymentIntentEndpoint(task) ==
  IF ~task.req.fieldsOk THEN Done(task, 400)
  ELSE [task EXCEPT !.pc = "awaitCustomerList"]

\* createOrRetrieveCustomer has returned (err = NoError) or thrown err to
\* POST /create-payment-intent, which calls stripe.paymentIntents.create or
\* answers 500 from its catch
CustomerReturns(task, err) ==
  IF err # NoError THEN Done([task EXCEPT !.error = err], 500)
  ELSE [task EXCEPT !.pc = "awaitPaymentIntentCreate"]

InitCustomer ==
  /\ InitWith({FullConfig})
  /\ provider = CatalogOne

CreatePaymentIntent(t, req) ==
  /\ Free(t)
  /\ Step(t, CreatePaymentIntentEndpoint(
               [IdleTask EXCEPT !.kind = "paymentIntent", !.req = req]))
  /\ UNCHANGED <<cache, provider, now, profileStore, config>>

\* createOrRetrieveCustomer: stripe.customers.list resolved; the customer
\* found is returned, or stripe.customers.create is called
CustomerListOk(t) ==
  /\ Settled
  /\ tasks[t].kind = "paymentIntent"
  /\ tasks[t].pc = "awaitCustomerList"
  /\ LET existingCustomers ==
           StripeCustomersList(provider, tasks[t].req.email)
     IN Step(t, IF Len(existingCustomers) > 0
                THEN CustomerReturns(
                       [tasks[t] EXCEPT !.customer = existingCustomers[1].id],
                       NoError)
                ELSE [tasks[t] EXCEPT !.pc = "awaitCustomerCreate"])
  /\ UNCHANGED <<cache, provider, now, profileStore, config>>

\* createOrRetrieveCustomer: stripe.customers.create resolved
CustomerCreateOk(t) ==
  /\ Settled
  /\ tasks[t].pc = "awaitCustomerCreate"
  /\ provider' = StripeCustomersCreate(provider, tasks[t].req.email)
  /\ Step(t, CustomerReturns(
               [tasks[t] EXCEPT !.customer = Len(provider'.customers),
                                !.effects = @ \cup {"customers.create"}],
               NoError))
  /\ UNCHANGED <<cache, now, profileStore, config>>

\* createOrRetrieveCustomer: a customers call rejected; the error is
\* wrapped and rethrown to the endpoint
CustomerCallFails(t) ==
  /\ Settled
  /\ tasks[t].kind = "paymentIntent"
  /\ tasks[t].pc \in {"awaitCustomerList", "awaitCustomerCreate"}
  /\ Step(t, CustomerReturns(tasks[t],
                             "Failed to create or retrieve customer"))
  /\ UNCHANGED <<cache, provider, now, profileStore, config>>

\* stripe.paymentIntents.create resolved: the response names the customer
PaymentIntentCreateOk(t) ==
  /\ Settled
  /\ tasks[t].pc = "awaitPaymentIntentCreate"
  /\ Step(t, Done(tasks[t], 200))
  /\ UNCHANGED <<cache, provider, now, profileStore, config>>

\* stripe.paymentIntents.create rejected: the endpoint's catch answers 500
PaymentIntentCreateFails(t) ==
  /\ Settled
  /\ tasks[t].pc = "awaitPaymentIntentCreate"
  /\ Step(t, Done([tasks[t] EXCEPT !.error = "paymentIntents.create failed"],
                  500))
  /\ UNCHANGED <<cache, provider, now, profileStore, config>>

\* requests are served in any free slot, that of the startup fetch
\* included once it is over
NextCustomer ==
  \/ \E t \in AllTasks, req \in PaymentIntentRequests :
       CreatePaymentIntent(t, req)
  \/ \E t \in AllTasks : CustomerListOk(t)
  \/ \E t \in AllTasks : CustomerCreateOk(t)
  \/ \E t \in AllTasks : CustomerCallFails(t)
  \/ \E t \in AllTasks : PaymentIntentCreateOk(t)
  \/ \E t \in AllTasks : PaymentIntentCreateFails(t)
  \/ Fetching

SpecCustomer == InitCustomer /\ [][NextCustomer]_vars

-----------------------------------------------------------------------------
(* Properties                                                              *)

\* task t's step is the arrival of a GET /products without refresh=true
ReadArrives(t) ==
  tasks[t].pc = "idle" /\ tasks'[t].kind = "products" /\ ~tasks'[t].force

\* the snapshot in c was published and its age at `time` is within the TTL
FreshAt(c, time) ==
  c.lastUpdated # NullTime /\ time - c.lastUpdated <= 5 * 60 * 1000

GatewayErrors == {"products.list failed", "prices.list failed"}

\* the error that getProductCatalog threw to task's call site
Thrown(task) == IF task.error # NoError THEN task.error ELSE task.caught

\* C1 as stated: a getProductCatalog(false) call on an unpopulated cache
\* starts one refresh, and one that follows a successful refresh within the
\* TTL starts none, whatever list of products that refresh stored.
C1_OneFetchForAnyList ==
  [][\A t \in Tasks :
       ReadArrives(t) =>
         /\ cache.lastUpdated = NullTime => tasks'[t].refreshes = 1
         /\ FreshAt(cache, now) => tasks'[t].refreshes = 0]_vars

\* C1 amended: a getProductCatalog(false) call on an unpopulated cache
\* starts exactly one refresh; a call that follows a successful refresh
\* within the TTL starts none when that refresh stored at least one product,
\* and starts one more refresh when it stored an empty product list.
C1_OneFetchForNonEmptyList ==
  [][\A t \in Tasks :
       ReadArrives(t) =>
         /\ tasks'[t].refreshes <= 1
         /\ cache.lastUpdated = NullTime =>
              tasks'[t].refreshes = 1 /\ tasks'[t].pc = "awaitProducts"
         /\ (FreshAt(cache, now) /\ Len(cache.products) > 0) =>
              /\ tasks'[t].refreshes = 0
              /\ tasks'[t].pc = "done" /\ tasks'[t].catalog = cache
              /\ refreshCount' = refreshCount
         /\ (FreshAt(cache, now) /\ Len(cache.products) = 0) =>
              tasks'[t].refreshes = 1 /\ refreshCount' = refreshCount + 1]_vars

\* a second read was served from the snapshot of an earlier refresh
C1_Witness ==
  \E t \in Tasks :
    /\ tasks[t].kind = "products" /\ ~tasks[t].force
    /\ tasks[t].pc = "done" /\ tasks[t].status = 200
    /\ tasks[t].refreshes = 0
    /\ Len(tasks[t].catalog.products) > 0
    /\ tasks[t].catalog = cache

\* C2: when a gateway call of a refresh fails, that refresh leaves the
\* stored cache (products, prices, lastUpdated) as it was, and the gateway's
\* error reaches the caller of getProductCatalog; the cache is only ever
\* replaced by the last step of a refresh whose two gateway calls succeeded.
C2_FailedRefreshKeepsCache ==
  [][/\ \A t \in AllTasks :
          (ProductsListFails(t) \/ PricesListFails(t)) =>
            /\ cache' = cache
            /\ tasks'[t].pc = "done"
            /\ Thrown(tasks'[t]) \in GatewayErrors
            /\ tasks'[t].site \in {"products", "refresh"} =>
                 tasks'[t].status = 500
     /\ cache' # cache => \E t \in AllTasks : PricesListOk(t)]_vars

\* a refresh failed on a gateway call while a snapshot was stored
C2_Witness ==
  \E t \in Tasks :
    /\ tasks[t].pc = "done" /\ tasks[t].refreshes = 1
    /\ tasks[t].error \in GatewayErrors
    /\ cache.lastUpdated # NullTime /\ Len(cache.products) > 0

\* C3 as stated: a GET /products that finishes while the cache has never
\* been populated answers 200 with an empty plan list.
C3_EmptyListNeverError ==
  \A t \in Tasks :
    (/\ tasks[t].kind = "products" /\ ~tasks[t].force
     /\ tasks[t].pc = "done" /\ cache.lastUpdated = NullTime) =>
       tasks[t].status = 200 /\ tasks[t].catalog.products = <<>>

\* C3 amended: a GET /products that arrives while the cache has never been
\* populated is not answered from the empty placeholder: it starts a
\* gateway fetch; when the fetch succeeds the answer is 200 with the
\* snapshot that fetch published, when it fails the answer is 500 and the
\* cache stays unpopulated.
C3_UnpopulatedReadFetches ==
  [][\A t \in Tasks :
       /\ (ReadArrives(t) /\ cache.lastUpdated = NullTime) =>
            tasks'[t].pc = "awaitProducts"
       /\ (/\ tasks[t].kind = "products" /\ ~tasks[t].force
           /\ tasks[t].pc # "done" /\ tasks'[t].pc = "done"
           /\ cache.lastUpdated = NullTime) =>
            \/ /\ tasks'[t].status = 200
               /\ cache'.lastUpdated # NullTime
               /\ cache'.pass.products = tasks[t].pass
               /\ tasks'[t].catalog = cache'
            \/ /\ tasks'[t].status = 500
               /\ tasks'[t].error # NoError
               /\ cache' = cache]_vars

\* a read of the never-populated cache ended in a 500
C3_Witness ==
  \E t \in Tasks :
    /\ tasks[t].kind = "products" /\ ~tasks[t].force
    /\ tasks[t].pc = "done" /\ tasks[t].status = 500
    /\ cache = InitialCache

\* the snapshot c holds no price for (planId, billingCycle)
Absent(c, planId, billingCycle) ==
  ~(planId \in DOMAIN c.prices /\ billingCycle \in DOMAIN c.prices[planId])

\* task t's step is the one in which its validatePriceId call ends
ValidateEnds(t) ==
  /\ tasks'[t].kind = "createSub"
  /\ tasks'[t].validate # "none"
  /\ tasks[t].pc = "idle" \/ tasks[t].validate = "none"

\* C4 as stated: once validatePriceId has ended for a (planId, billingCycle)
\* pair that the snapshot does not hold, it has returned null and has not
\* thrown, whatever state the cache was in.
C4_NullNeverThrows ==
  \A t \in Tasks :
    (/\ tasks[t].kind = "createSub" /\ tasks[t].validate # "none"
     /\ Absent(cache, tasks[t].req.planId, tasks[t].req.billingCycle)) =>
       tasks[t].validate = "returned" /\ tasks[t].validPriceId = NullPriceId

\* C4 amended: validatePriceId returns null for every pair absent from the
\* snapshot that its getProductCatalog() call returned, and does not throw
\* when the cache is populated and fresh; when the cache is stale, empty or
\* never populated it refreshes first, and the error of a failed refresh
\* is thrown to its caller with the cache left as it was.
C4_NullUnlessRefreshFails ==
  [][\A t \in Tasks :
       ValidateEnds(t) =>
         /\ \/ /\ tasks'[t].validate = "returned"
               /\ Absent(cache', tasks'[t].req.planId,
                         tasks'[t].req.billingCycle) =>
                    tasks'[t].validPriceId = NullPriceId
            \/ /\ tasks'[t].validate = "threw"
               /\ tasks[t].pc \in {"awaitProducts", "awaitPrices"}
               /\ tasks'[t].error # NoError
               /\ tasks'[t].status = 500
               /\ cache' = cache
         /\ (/\ tasks[t].pc = "idle"
             /\ FreshAt(cache, now) /\ Len(cache.products) > 0) =>
              tasks'[t].validate = "returned" /\ tasks'[t].refreshes = 0]_vars

\* validatePriceId returned null for a plan the snapshot lists, after the
\* refresh that its catalog read needed
C4_Witness ==
  \E t \in Tasks :
    /\ tasks[t].kind = "createSub" /\ tasks[t].validate = "returned"
    /\ tasks[t].validPriceId = NullPriceId
    /\ tasks[t].refreshes >= 1
    /\ tasks[t].req.planId \in DOMAIN cache.prices
    /\ Absent(cache, tasks[t].req.planId, tasks[t].req.billingCycle)

\* C5: the refresh that publishes a snapshot matches every active monthly
\* recurring price of a fetched product to that product: the plan cached
\* for the product has prices.monthly.priceId equal to the price's id.
C5_PricesMatchedToProducts ==
  [][\A t \in AllTasks :
       (PricesListOk(t) /\ cache'.pass.products = tasks[t].pass) =>
         \A i \in 1..Len(provider.prices), j \in 1..Len(tasks[t].raw) :
           LET price == provider.prices[i]
               product == tasks[t].raw[j]
           IN (/\ price.active /\ price.product = product.id
               /\ "recurring" \in DOMAIN price
               /\ price.recurring.interval = "month") =>
                \E k \in 1..Len(cache'.products) :
                  /\ cache'.products[k].id = product.id
                  /\ "monthly" \in DOMAIN cache'.products[k].prices
                  /\ cache'.products[k].prices.monthly.priceId = price.id]_vars

\* the pass of the refresh that wrote each field of snapshot c is one pass,
\* and the prices lookup is the one built from c's products
OnePass(c) ==
  /\ c.pass.products = c.pass.prices
  /\ c.pass.prices = c.pass.lastUpdated
  /\ (c.pass.products = 0) <=> (c.lastUpdated = NullTime)
  /\ c.pass.products = 0 => c.products = <<>> /\ c.prices = <<>>
  /\ DOMAIN c.prices = {c.products[i].planId : i \in 1..Len(c.products)}
  /\ \A i \in 1..Len(c.products) :
       \E j \in 1..Len(c.products) :
         /\ c.products[j].planId = c.products[i].planId
         /\ c.prices[c.products[i].planId] = c.products[j].prices

\* C6: in every reachable state the cache's products, prices and
\* lastUpdated were written by one and the same organize pass, or are all
\* the initial placeholder, and so is every catalog a reader was handed.
C6_SnapshotFromOnePass ==
  /\ OnePass(cache)
  /\ \A t \in AllTasks :
       tasks[t].pc = "done" /\ tasks[t].status = 200 =>
         OnePass(tasks[t].catalog)

\* a reader was handed the snapshot of a later refresh while the refresh
\* started before it was still in flight
C6_Witness ==
  \E t \in Tasks, u \in AllTasks :
    /\ tasks[t].pc = "done" /\ tasks[t].status = 200
    /\ tasks[t].catalog = cache
    /\ cache.pass.products >= 2 /\ Len(cache.products) > 0
    /\ tasks[u].pc \in {"awaitProducts", "awaitPrices"}
    /\ tasks[u].pass < cache.pass.products

\* task t took the step
Stepped(t) == tasks'[t] # tasks[t]

C8_WebhookRefreshFailureSwallowed ==
  [][\A t \in Tasks :
       (/\ tasks[t].kind = "webhook"
        /\ \/ ProductsListFails(t)
           \/ PricesListFails(t)
           \/ PricesListOk(t) /\ cache'.pass.products # tasks[t].pass) =>
         /\ tasks'[t].pc = "done"
         /\ tasks'[t].status = 200
         /\ tasks'[t].error = NoError
         /\ tasks'[t].caught # NoError
         /\ cache' = cache
         /\ tasks'[t].refreshes = 1
         /\ refreshCount' = refreshCount]_vars

\* a catalog webhook was answered 200 although its refresh failed, and the
\* snapshot published before it is still in the cache
C8_Witness ==
  \E t \in Tasks :
    /\ tasks[t].kind = "webhook" /\ tasks[t].pc = "done"
    /\ tasks[t].status = 200
    /\ tasks[t].caught \in GatewayErrors
    /\ cache.lastUpdated # NullTime /\ Len(cache.products) > 0
    /\ cache.pass.products < tasks[t].pass

\* the snapshot c holds priceId for the request's (planId, billingCycle)
CatalogHolds(c, req) ==
  /\ req.planId \in DOMAIN c.prices
  /\ req.billingCycle \in DOMAIN c.prices[req.planId]
  /\ c.prices[req.planId][req.billingCycle].priceId = req.priceId

\* C9 as stated: a POST /create-subscription that ends without provider
\* side effects was answered 400.
C9_RejectedWith400 ==
  \A t \in Tasks :
    (/\ tasks[t].kind = "createSub" /\ tasks[t].pc = "done"
     /\ tasks[t].effects = {}) =>
       tasks[t].status = 400

\* C9 amended: POST /create-subscription makes provider calls only when
\* request validation passed and the supplied priceId equals the one the
\* catalog holds for (planId, billingCycle) at validation time; otherwise
\* it makes no provider call and no Profile Store write and answers 400,
\* or 500 when a catalog refresh it needed failed.
C9_EffectsOnlyForCatalogPrice ==
  [][\A t \in Tasks :
       (tasks'[t].kind = "createSub" /\ Stepped(t)) =>
         /\ profileStore' = profileStore
         /\ tasks'[t].effects # {} =>
              /\ ValidationPassed(tasks'[t].req)
              /\ CatalogHolds(cache', tasks'[t].req)
         /\ ~ValidationPassed(tasks'[t].req) =>
              /\ tasks'[t].pc = "done" /\ tasks'[t].status = 400
              /\ tasks'[t].refreshes = 0
         /\ tasks'[t].pc = "done" =>
              /\ tasks'[t].effects = {}
              /\ \/ tasks'[t].status = 400 /\ tasks'[t].error = NoError
                 \/ /\ tasks'[t].status = 500
                    /\ tasks'[t].error # NoError
                    /\ tasks[t].pc \in {"awaitProducts", "awaitPrices"}]_vars

\* a well-formed request whose priceId the catalog does not hold for its
\* plan was answered 400 without any provider call
C9_Witness ==
  \E t \in Tasks :
    /\ tasks[t].kind = "createSub" /\ tasks[t].pc = "done"
    /\ ValidationPassed(tasks[t].req)
    /\ tasks[t].validate = "returned"
    /\ ~CatalogHolds(cache, tasks[t].req)
    /\ tasks[t].status = 400 /\ tasks[t].effects = {}
    /\ profileStore = EmptyStore

\* C10: handleWebhookEvent runs only for a request whose signature was made
\* with the configured webhook secret; when the secret is not configured
\* or the signature does not verify, the endpoint answers 400 and the
\* catalog cache and the Profile Store stay as they were.
C10_HandledOnlyWhenVerified ==
  [][\A t \in Tasks :
       (tasks'[t].kind = "webhook" /\ Stepped(t)) =>
         LET verified == /\ config.endpointSecret # NoSecret
                         /\ tasks'[t].req.sigSecret = config.endpointSecret
         IN /\ tasks'[t].handled => verified
            /\ ~verified =>
                 /\ tasks'[t].pc = "done" /\ tasks'[t].status = 400
                 /\ ~tasks'[t].handled
                 /\ tasks'[t].refreshes = 0
                 /\ refreshCount' = refreshCount
                 /\ cache' = cache
                 /\ profileStore' = profileStore]_vars

\* a webhook signed with another secret was answered 400
C10_Witness ==
  \E t \in Tasks :
    /\ tasks[t].kind = "webhook" /\ tasks[t].pc = "done"
    /\ config.endpointSecret = WebhookSecret
    /\ tasks[t].req.sigSecret # config.endpointSecret
    /\ tasks[t].status = 400 /\ ~tasks[t].handled
    /\ cache.lastUpdated # NullTime

\* features values that are not JSON
MalformedFeatures == {<<"not-json">>, <<"[", "\"Email support\"">>}

\* some product of the listing carries a features value that is not JSON
HasMalformedFeatures(products) ==
  \E i \in 1..Len(products) :
    /\ "features" \in DOMAIN products[i].metadata
    /\ products[i].metadata.features \in MalformedFeatures

\* the organize pass of task t's refresh runs on a listing with a
\* malformed features value
OrganizeOnMalformed(t) ==
  /\ Stepped(t) /\ tasks[t].pc = "awaitPrices"
  /\ HasMalformedFeatures(tasks[t].raw)
  /\ PricesListOk(t)

\* C11 as stated: an organize pass over a listing with a malformed features
\* value publishes nothing and leaves the cache as it was, and while the
\* provider's listing stays malformed a non-forced read within the TTL of
\* the stored snapshot is served that snapshot without a refresh.
C11_MalformedKeepsServedSnapshot ==
  [][/\ \A t \in AllTasks :
          OrganizeOnMalformed(t) =>
            /\ cache' = cache
            /\ tasks'[t].pc = "done"
            /\ Thrown(tasks'[t]) = "SyntaxError"
     /\ \A t \in Tasks :
          (/\ ReadArrives(t) /\ FreshAt(cache, now)
           /\ HasMalformedFeatures(StripeProductsList(provider))) =>
            /\ tasks'[t].pc = "done" /\ tasks'[t].status = 200
            /\ tasks'[t].refreshes = 0
            /\ tasks'[t].catalog = cache]_vars

\* C11 amended: an organize pass over a listing with a malformed features
\* value publishes nothing and leaves the cache as it was; while the
\* provider's listing stays malformed, a non-forced read within the TTL of
\* the stored snapshot is served that snapshot when it lists at least one
\* plan, and starts a new refresh when it lists none.
C11_MalformedKeepsSnapshot ==
  [][/\ \A t \in AllTasks :
          OrganizeOnMalformed(t) =>
            /\ cache' = cache
            /\ tasks'[t].pc = "done"
            /\ Thrown(tasks'[t]) = "SyntaxError"
            /\ tasks'[t].site \in {"products", "refresh"} =>
                 tasks'[t].status = 500
     /\ \A t \in Tasks :
          (/\ ReadArrives(t) /\ FreshAt(cache, now)
           /\ HasMalformedFeatures(StripeProductsList(provider))) =>
            IF Len(cache.products) > 0
            THEN /\ tasks'[t].pc = "done" /\ tasks'[t].status = 200
                 /\ tasks'[t].refreshes = 0
                 /\ tasks'[t].catalog = cache
            ELSE /\ tasks'[t].pc = "awaitProducts"
                 /\ tasks'[t].refreshes = 1]_vars

\* a refresh failed in the organize pass while a snapshot with plans,
\* still within its TTL, was stored
C11_Witness ==
  \E t \in Tasks :
    /\ tasks[t].pc = "done" /\ tasks[t].error = "SyntaxError"
    /\ tasks[t].status = 500
    /\ Len(cache.products) > 0 /\ FreshAt(cache, now)
    /\ cache.pass.products < tasks[t].pass

\* task t's step is the arrival of GET /products?refresh=true or of
\* POST /refresh-catalog, both of which call getProductCatalog(true)
ForcedArrives(t) ==
  /\ tasks[t].pc = "idle"
  /\ tasks'[t].kind \in {"products", "refresh"} /\ tasks'[t].force

\* C12: a getProductCatalog(true) call starts exactly one refresh whatever
\* the cache holds (fresh, stale, empty or never populated): the refresh
\* lists the products once and, when that listing succeeds, the prices
\* once, and the call starts no further refresh.
C12_ForcedCallRefreshesOnce ==
  [][\A t \in Tasks :
       /\ ForcedArrives(t) =>
            /\ tasks'[t].pc = "awaitProducts"
            /\ tasks'[t].refreshes = 1
            /\ tasks'[t].pass = refreshCount + 1
            /\ refreshCount' = refreshCount + 1
       /\ (/\ tasks[t].kind \in {"products", "refresh"} /\ tasks[t].force
           /\ tasks[t].pc # "done" /\ Stepped(t)) =>
            /\ tasks'[t].refreshes = 1
            /\ refreshCount' = refreshCount
            /\ tasks[t].pc = "awaitProducts" =>
                 tasks'[t].pc \in {"awaitPrices", "done"}
            /\ tasks[t].pc = "awaitPrices" => tasks'[t].pc = "done"
            /\ (tasks'[t].pc = "done" /\ tasks'[t].status = 200) =>
                 /\ tasks[t].pc = "awaitPrices"
                 /\ cache'.pass.products = tasks[t].pass
                 /\ tasks'[t].catalog = cache']_vars

\* a forced call is refreshing although the stored snapshot lists plans
\* and is within its TTL
C12_Witness ==
  \E t \in Tasks :
    /\ tasks[t].kind \in {"products", "refresh"} /\ tasks[t].force
    /\ tasks[t].pc = "awaitPrices" /\ tasks[t].refreshes = 1
    /\ FreshAt(cache, now) /\ Len(cache.products) > 0

\* task t's step ends its getProductCatalog call at a catalog endpoint
CatalogCallEnds(t) ==
  /\ Stepped(t)
  /\ tasks'[t].kind \in {"products", "refresh"}
  /\ tasks'[t].pc = "done"

\* C13: getProductCatalog never returns a snapshot older than the
\* 5-minute TTL: a call that finds the stored snapshot older than the TTL
\* does not return it, and ends either with the snapshot its own refresh
\* published or with the error of that refresh.
C13_NoStaleSnapshotReturned ==
  [][\A t \in Tasks :
       CatalogCallEnds(t) =>
         /\ tasks'[t].status = 200 =>
              /\ tasks'[t].catalog.lastUpdated # NullTime
              /\ now - tasks'[t].catalog.lastUpdated <= 5 * 60 * 1000
         /\ (/\ tasks[t].pc = "idle" /\ cache.lastUpdated # NullTime
             /\ now - cache.lastUpdated > 5 * 60 * 1000) => FALSE
         /\ tasks[t].pc # "idle" =>
              \/ /\ tasks'[t].status = 200
                 /\ tasks'[t].catalog = cache'
                 /\ cache'.pass.products = tasks[t].pass
                 /\ cache'.lastUpdated = now
              \/ /\ tasks'[t].status = 500
                 /\ tasks'[t].error # NoError]_vars

\* a non-forced read is refreshing because the stored snapshot, which
\* lists plans, is older than the TTL
C13_Witness ==
  \E t \in Tasks :
    /\ tasks[t].kind = "products" /\ ~tasks[t].force
    /\ tasks[t].pc = "awaitProducts"
    /\ cache.lastUpdated # NullTime /\ Len(cache.products) > 0
    /\ now - cache.lastUpdated > 5 * 60 * 1000

\* organizeProductCatalog has returned the plans now in the cache
Organized == cache.lastUpdated # NullTime

\* the billing cycle of a provider price
CycleOf(price) ==
  IF "recurring" \notin DOMAIN price THEN "one_time"
  ELSE IF price.recurring.interval = "month" THEN "monthly"
  ELSE IF price.recurring.interval = "year" THEN "yearly"
  ELSE price.recurring.interval

\* C14: every key of a plan's prices mapping is monthly, yearly or one_time
\* and stands for an active price of that plan's product with that very
\* billing interval (month, year, none); no other cycle appears.
C14_OnlyPresentIntervals ==
  Organized =>
    \A k \in 1..Len(cache.products) :
      \A key \in DOMAIN cache.products[k].prices :
        /\ key \in {"monthly", "yearly", "one_time"}
        /\ \E i \in 1..Len(provider.prices) :
             /\ provider.prices[i].active
             /\ provider.prices[i].product = cache.products[k].id
             /\ CycleOf(provider.prices[i]) = key

\* the value of the decimal digit d
DigitValue(d) == CHOOSE v \in 0..9 : DigitChars[v + 1] = d

\* s is an integer literal: an optional minus sign, then digits only
IsIntegerLiteral(s) ==
  LET body == IF s # <<>> /\ Head(s) = "-" THEN Tail(s) ELSE s
  IN /\ body # <<>>
     /\ \A i \in 1..Len(body) : \E v \in 0..9 : DigitChars[v + 1] = body[i]

RECURSIVE DigitsValue(_)
DigitsValue(digits) ==
  IF digits = <<>> THEN 0
  ELSE 10 * DigitsValue(SubSeq(digits, 1, Len(digits) - 1))
         + DigitValue(digits[Len(digits)])

\* the integer that the literal s denotes
IntegerOf(s) ==
  IF Head(s) = "-" THEN 0 - DigitsValue(Tail(s)) ELSE DigitsValue(s)

\* C15: a plan's displayOrder is the integer written in its product's
\* display_order metadata whenever that is present and numeric (0 and
\* negative values included), and is 999 when display_order is absent or
\* not numeric.
C15_DisplayOrderParsed ==
  Organized =>
    \A k \in 1..Len(cache.products), i \in 1..Len(provider.products) :
      LET plan == cache.products[k]
          product == provider.products[i]
          given == "display_order" \in DOMAIN product.metadata
      IN plan.id = product.id =>
           IF given /\ IsIntegerLiteral(product.metadata.display_order)
           THEN plan.displayOrder = IntegerOf(product.metadata.display_order)
           ELSE plan.displayOrder = 999

\* C16: when organizeProductCatalog succeeds, its plan list has exactly
\* one plan for every input product and no other plan, so its length is
\* the number of distinct input product identifiers; products that derive
\* the same planId and products without a matching price are kept.
C16_OnePlanPerProduct ==
  Organized =>
    /\ Len(cache.products) = Len(provider.products)
    /\ Len(cache.products) =
         Cardinality({provider.products[i].id :
                        i \in 1..Len(provider.products)})
    /\ \A i \in 1..Len(provider.products) :
         Cardinality({k \in 1..Len(cache.products) :
                        cache.products[k].id = provider.products[i].id}) = 1
    /\ \A k \in 1..Len(cache.products) :
         \E i \in 1..Len(provider.products) :
           cache.products[k].id = provider.products[i].id

\* three products were organized, two of them with the same planId, one
\* with a matched price and one without
C16_Witness ==
  /\ Organized /\ Len(cache.products) = 3
  /\ \E j, k \in 1..Len(cache.products) :
       j # k /\ cache.products[j].planId = cache.products[k].planId
  /\ \E k \in 1..Len(cache.products) : cache.products[k].prices = <<>>
  /\ \E k \in 1..Len(cache.products) : cache.products[k].prices # <<>>

\* the position of the product with this id in the input list
InputIndex(id) ==
  CHOOSE i \in 1..Len(provider.products) : provider.products[i].id = id

\* C17: the plan list that organizeProductCatalog returns is ordered by
\* non-decreasing displayOrder, and plans with equal displayOrder, such as
\* those that default to 999, keep their order from the input list.
C17_SortedAndStable ==
  Organized =>
    \A j, k \in 1..Len(cache.products) :
      j < k =>
        /\ cache.products[j].displayOrder <= cache.products[k].displayOrder
        /\ cache.products[j].displayOrder = cache.products[k].displayOrder =>
             InputIndex(cache.products[j].id) < InputIndex(cache.products[k].id)

\* two products without display_order came out in input order behind a
\* product that the sort moved in front of them
C17_Witness ==
  /\ Organized /\ Len(cache.products) = 3
  /\ "display_order" \notin DOMAIN cache.products[2].metadata
  /\ "display_order" \notin DOMAIN cache.products[3].metadata
  /\ cache.products[2].displayOrder = 999
  /\ cache.products[3].displayOrder = 999
  /\ InputIndex(cache.products[1].id) = 3

BillingCycles == {"monthly", "yearly", "one_time"}

\* the priceId that plan holds for billingCycle, or null
PlanPriceId(plan, billingCycle) ==
  IF billingCycle \in DOMAIN plan.prices
  THEN plan.prices[billingCycle].priceId
  ELSE NullPriceId

\* the positions of the plans that share the planId of the plan at k
SamePlanId(k) ==
  {j \in 1..Len(cache.products) :
     cache.products[j].planId = cache.products[k].planId}

\* C18 as stated: for every plan P of the snapshot the lookup entry
\* prices[P.planId] is P's own prices mapping, and validatePriceId(planId,
\* cycle) is the priceId held by the plan that getProductByPlanId(planId)
\* returns.
C18_LookupIsOwnPrices ==
  Organized =>
    \A k \in 1..Len(cache.products) :
      LET P == cache.products[k]
      IN /\ P.planId \in DOMAIN cache.prices
         /\ cache.prices[P.planId] = P.prices
         /\ \A cycle \in BillingCycles :
              ValidatePriceIdResult(cache, P.planId, cycle) =
                PlanPriceId(GetProductByPlanIdResult(cache, P.planId), cycle)

\* C18 amended: the lookup has one entry per planId of the plan list, and
\* prices[planId] is the prices mapping of the product that derived that
\* planId last in input order; it is P's own mapping, and validatePriceId
\* agrees with the plan that getProductByPlanId returns, for every plan P
\* whose planId no other plan shares.
C18_LookupIsLastWritten ==
  Organized =>
    /\ DOMAIN cache.prices =
         {cache.products[k].planId : k \in 1..Len(cache.products)}
    /\ \A k \in 1..Len(cache.products) :
         LET P == cache.products[k]
             last == CHOOSE j \in SamePlanId(k) :
                       \A i \in SamePlanId(k) :
                         InputIndex(cache.products[i].id)
                           <= InputIndex(cache.products[j].id)
         IN /\ cache.prices[P.planId] = cache.products[last].prices
            /\ SamePlanId(k) = {k} =>
                 /\ cache.prices[P.planId] = P.prices
                 /\ GetProductByPlanIdResult(cache, P.planId) = P
                 /\ \A cycle \in BillingCycles :
                      ValidatePriceIdResult(cache, P.planId, cycle) =
                        PlanPriceId(P, cycle)

\* two plans share a planId, and the plan that getProductByPlanId returns
\* for it is not the one whose prices the lookup holds
C18_Witness ==
  /\ Organized
  /\ \E j, k \in 1..Len(cache.products) :
       /\ j < k /\ cache.products[j].planId = cache.products[k].planId
       /\ cache.products[j].prices # cache.products[k].prices
       /\ GetProductByPlanIdResult(cache, cache.products[j].planId) =
            cache.products[j]
       /\ cache.prices[cache.products[j].planId] = cache.products[k].prices

\* C19: the subscription_status that POST /cancel-subscription stores for
\* the user is the status of the subscription object that the provider's
\* update call returned.
C19_StoredStatusMirrorsProvider ==
  [][\A t \in Tasks :
       (tasks[t].kind = "cancel" /\ profileStore' # profileStore) =>
         profileStore'.profiles[tasks[t].req.userId].subscription_status =
           tasks[t].subscription.status]_vars

\* the startup fetch of task 0 fails in this step
StartupFetchFails ==
  /\ tasks[0].kind = "startup"
  /\ \/ ProductsListFails(0)
     \/ PricesListFails(0)
     \/ PricesListOk(0) /\ cache'.pass.products # tasks[0].pass

\* C20: a failure of the startup fetch is caught inside
\* initializeProductCatalog, so the process keeps running and the cache
\* stays as it was; with the cache still the empty placeholder after
\* startup, the next read that needs the catalog starts a new fetch.
C20_StartupFailureTolerated ==
  [][/\ StartupFetchFails =>
          /\ tasks'[0].pc = "done"
          /\ tasks'[0].error = NoError
          /\ tasks'[0].caught # NoError
          /\ cache' = cache
     /\ ~Crashed'
     /\ \A t \in Tasks :
          (/\ ReadArrives(t)
           /\ tasks[0].pc = "idle" /\ cache = InitialCache) =>
            /\ tasks'[t].pc = "awaitProducts"
            /\ tasks'[t].refreshes = 1
            /\ refreshCount' = refreshCount + 1]_vars

\* the startup fetch is over, the cache is still the placeholder, and a
\* read has started a fetch of its own
C20_Witness ==
  \E t \in Tasks :
    /\ tasks[0].pc = "idle" /\ cache = InitialCache
    /\ tasks[t].kind = "products" /\ ~tasks[t].force
    /\ tasks[t].pc \in {"awaitProducts", "awaitPrices"}
    /\ tasks[t].refreshes = 1

\* task u is inside fetchProducts, awaiting one of the two list calls
InFlight(u) == tasks[u].pc \in {"awaitProducts", "awaitPrices"}

\* C22: refreshes are not deduplicated.  Every getProductCatalog call that
\* finds the snapshot missing or older than the TTL starts a gateway fetch
\* of its own, however many fetches are already in flight, and leaves those
\* untouched; every fetch whose two list calls and organize pass succeed
\* replaces the stored snapshot with its own result.
C22_RefreshesNotDeduplicated ==
  [][/\ \A t \in Tasks :
          (/\ tasks[t].pc = "idle"
           /\ tasks'[t].kind \in {"products", "refresh"}
           /\ \/ cache.lastUpdated = NullTime
              \/ now - cache.lastUpdated > 5 * 60 * 1000) =>
            /\ tasks'[t].pc = "awaitProducts"
            /\ tasks'[t].pass = refreshCount + 1
            /\ refreshCount' = refreshCount + 1
            /\ \A u \in AllTasks \ {t} : tasks'[u] = tasks[u]
     /\ \A t \in AllTasks :
          (PricesListOk(t) /\ Thrown(tasks'[t]) = NoError) =>
            /\ cache'.pass.products = tasks[t].pass
            /\ cache'.pass.prices = tasks[t].pass
            /\ cache'.lastUpdated = now]_vars

\* a read that found no snapshot started a fetch while the startup fetch
\* was still in flight
C22_Witness ==
  \E t \in Tasks :
    /\ InFlight(0) /\ InFlight(t)
    /\ tasks[t].kind = "products" /\ ~tasks[t].force
    /\ tasks[t].pass # tasks[0].pass
    /\ cache = InitialCache

\* task t's fetch ends in this step with a published snapshot
Publishes(t) ==
  /\ Stepped(t) /\ tasks[t].pc = "awaitPrices"
  /\ Thrown(tasks'[t]) = NoError
  /\ PricesListOk(t)

\* C23: the last refresh to complete wins.  A refresh that completes
\* stores the products it listed, stamped with the time of its completion,
\* whichever refresh wrote the snapshot it replaces, also one that started
\* after it; nothing else changes the stored snapshot.
C23_LastCompletedWins ==
  [][/\ \A t \in AllTasks :
          Publishes(t) =>
            /\ cache'.products =
                 organizeProductCatalog(
                   tasks[t].raw,
                   StripePricesList(provider, PricesExpand)).products
            /\ cache'.pass.products = tasks[t].pass
            /\ cache'.lastUpdated = now
            /\ cache'.lastUpdated >= cache.lastUpdated
     /\ cache' # cache => \E t \in AllTasks : Publishes(t)]_vars

\* the identifiers of the products in a list
Ids(list) == {list[i].id : i \in 1..Len(list)}

\* the startup refresh has just completed, after a refresh that started
\* later: it replaced that refresh's snapshot with products that are not
\* the provider's current ones, under a later lastUpdated
C23_Witness ==
  /\ tasks[0].kind = "startup" /\ tasks[0].pc = "done"
  /\ cache.pass.products = 1 /\ cache.pass.replaced = 2
  /\ cache.pass.replacedAt # NullTime
  /\ cache.lastUpdated > cache.pass.replacedAt
  /\ Ids(cache.products) # Ids(StripeProductsList(provider))

\* task t's refresh fails in this step
RefreshFails(t) ==
  /\ Stepped(t) /\ InFlight(t)
  /\ \/ ProductsListFails(t)
     \/ PricesListFails(t)
     \/ Thrown(tasks'[t]) # NoError /\ PricesListOk(t)

\* every response is out, and the refresh that started last ended without
\* publishing: one refresh only has published, the one that started just
\* before it
LatestRefreshFailed ==
  /\ \A u \in AllTasks : tasks[u].pc = "idle"
  /\ cache.pass.products > 0 /\ cache.pass.replaced = 0
  /\ refreshCount = cache.pass.products + 1

\* C24 as stated: the first getProductCatalog(false) call after a refresh
\* has failed starts a new fetch.
C24_ReadAfterFailureFetches ==
  [][\A t \in Tasks :
       (ReadArrives(t) /\ LatestRefreshFailed) =>
         tasks'[t].pc = "awaitProducts"]_vars

\* C24 amended: a refresh that fails ends its call and starts nothing: the
\* count of fetches, the stored snapshot and every other request are as they
\* were, and a fetch is only ever started by a request that arrives.  A
\* later getProductCatalog(false) call starts a new fetch exactly when the
\* stored snapshot is missing, older than the TTL or without products; after
\* the failure of a forced refresh of a fresh snapshot it is served from
\* that snapshot.
C24_NoRetryNextReadDecides ==
  [][/\ \A t \in AllTasks :
          RefreshFails(t) =>
            /\ tasks'[t].pc = "done"
            /\ refreshCount' = refreshCount
            /\ cache' = cache
            /\ \A u \in AllTasks \ {t} : tasks'[u] = tasks[u]
     /\ refreshCount' # refreshCount =>
          \E t \in Tasks :
            tasks[t].pc = "idle" /\ tasks'[t].pc = "awaitProducts"
     /\ \A t \in Tasks :
          ReadArrives(t) =>
            /\ tasks'[t].pc = "awaitProducts" <=>
                 \/ cache.lastUpdated = NullTime
                 \/ now - cache.lastUpdated > 5 * 60 * 1000
                 \/ cache.products = <<>>
            /\ tasks'[t].pc = "awaitProducts" =>
                 refreshCount' = refreshCount + 1
            /\ tasks'[t].pc # "awaitProducts" =>
                 /\ tasks'[t].pc = "done" /\ tasks'[t].catalog = cache
                 /\ refreshCount' = refreshCount]_vars

\* after the failure of a forced refresh, a read was served from the
\* snapshot that the startup refresh had published, without a fetch
C24_Witness ==
  \E t \in Tasks :
    /\ tasks[t].kind = "products" /\ ~tasks[t].force
    /\ tasks[t].pc = "done" /\ tasks[t].status = 200
    /\ tasks[t].refreshes = 0
    /\ cache.pass.products = 1 /\ cache.pass.replaced = 0
    /\ refreshCount = 2

\* the listed prices that the organizer matches to the product: those
\* whose product field is the product's identifier itself
MatchedPrices(productId) ==
  IF "data.product" \in provider.expand THEN <<>>
  ELSE SelectSeq(provider.prices,
                 LAMBDA q : q.active /\ q.product = productId)

\* the key under which C25 files a price
KeyOf(price) ==
  IF "recurring" \notin DOMAIN price THEN "one_time"
  ELSE IF price.recurring.interval = "month" THEN "monthly"
  ELSE "yearly"

\* the position in list of the last price filed under key
LastWithKey(list, key) ==
  CHOOSE i \in 1..Len(list) :
    /\ KeyOf(list[i]) = key
    /\ \A j \in 1..Len(list) : KeyOf(list[j]) = key => j <= i

\* C25: the keys of a plan's prices are those of the prices matched to its
\* product: monthly for interval month, yearly for every other recurring
\* interval (year, week, day), one_time for a price without a recurring
\* descriptor; under each key stands the matched price that comes last in
\* the price list among those of that key.
C25_KeysAndLastPriceWins ==
  Organized =>
    \A k \in 1..Len(cache.products) :
      LET plan == cache.products[k]
          matched == MatchedPrices(plan.id)
      IN /\ DOMAIN plan.prices =
              {KeyOf(matched[i]) : i \in 1..Len(matched)}
         /\ \A key \in DOMAIN plan.prices :
              LET price == matched[LastWithKey(matched, key)]
              IN /\ plan.prices[key].priceId = price.id
                 /\ plan.prices[key].unitAmount = price.unit_amount
                 /\ key # "one_time" =>
                      plan.prices[key].interval = price.recurring.interval

\* a plan with a weekly and then a daily price, a monthly and a one-time
\* price: the daily one stands under yearly
C25_Witness ==
  /\ Organized
  /\ \E k \in 1..Len(cache.products) :
       LET plan == cache.products[k]
           matched == MatchedPrices(plan.id)
       IN /\ DOMAIN plan.prices = {"monthly", "yearly", "one_time"}
          /\ plan.prices["yearly"].interval = "day"
          /\ \E i, j \in 1..Len(matched) :
               /\ i < j
               /\ KeyOf(matched[i]) = "yearly"
               /\ KeyOf(matched[j]) = "yearly"
               /\ matched[i].recurring.interval = "week"
               /\ matched[j].recurring.interval = "day"

\* C26: whatever refreshes succeed or fail, and in whatever order they
\* complete, the cache's lastUpdated never decreases, and once a refresh
\* has set it, it is never null again; the clock itself never goes back.
C26_LastUpdatedMonotonic ==
  [][/\ now' >= now
     /\ cache'.lastUpdated >= cache.lastUpdated
     /\ cache.lastUpdated # NullTime => cache'.lastUpdated # NullTime
     /\ cache'.lastUpdated # cache.lastUpdated => cache'.lastUpdated = now
     /\ \A t \in AllTasks :
          RefreshFails(t) => cache'.lastUpdated = cache.lastUpdated]_vars

\* a second refresh has replaced a published snapshot at a later time
C26_Witness ==
  /\ cache.pass.replaced # 0
  /\ cache.pass.replaced < cache.pass.products
  /\ cache.pass.replacedAt # NullTime
  /\ cache.lastUpdated > cache.pass.replacedAt

\* task t has handled a webhook about a subscription or an invoice
StoreEventHandled(t) ==
  /\ tasks[t].kind = "webhook" /\ tasks[t].handled
  /\ tasks[t].req.eventType \in StoreEventTypes
  /\ tasks[t].pc = "done"

\* C27: when a Profile Store call fails while a customer.subscription.* or
\* invoice.payment_* webhook is handled, the error is caught in the handler,
\* the webhook is answered 200 {received: true}, and the handler has changed
\* no table of the Profile Store.
C27_StoreFailureLeavesStore ==
  \A t \in AllTasks :
    (StoreEventHandled(t) /\ tasks[t].caught = StoreError) =>
      /\ tasks[t].status = 200 /\ tasks[t].error = NoError
      /\ tasks[t].effects = {}

\* the business_subscriptions record of the subscription says active
RecordActive(subscriptionId) ==
  \E i \in SubscriptionRows(profileStore, subscriptionId) :
    profileStore.subscriptions[i].status = "active"

\* the business profile of the user is set active
ProfileActive(userId) ==
  /\ userId \in DOMAIN profileStore.profiles
  /\ "is_active" \in DOMAIN profileStore.profiles[userId]
  /\ profileStore.profiles[userId].is_active = "true"
  /\ "business_status" \in DOMAIN profileStore.profiles[userId]
  /\ profileStore.profiles[userId].business_status = "Active"

\* C28: once invoice.payment_succeeded has been handled for a subscription
\* that carries a userId, the mirrored subscription record is active if and
\* only if the user's business profile is active.
C28_RecordAndProfileAgree ==
  \A t \in AllTasks :
    (/\ StoreEventHandled(t)
     /\ tasks[t].req.eventType = "invoice.payment_succeeded"
     /\ tasks[t].req.userId # NoUser /\ config.supabase) =>
      (RecordActive(tasks[t].req.subscriptionId)
         <=> ProfileActive(tasks[t].req.userId))

\* C29: business_subscriptions never holds more than one record of a
\* stripe_subscription_id.
C29_OneRecordPerSubscription ==
  \A i, j \in 1..Len(profileStore.subscriptions) :
    profileStore.subscriptions[i].stripe_subscription_id =
      profileStore.subscriptions[j].stripe_subscription_id => i = j

\* the provider's customers with this email
CustomersWith(email) ==
  {i \in 1..Len(provider.customers) : provider.customers[i].email = email}

\* C30: for every email address the provider holds at most one customer
\* that createOrRetrieveCustomer created, and a request that has obtained
\* its customer holds one with its email.
C30_OneCustomerPerEmail ==
  /\ \A email \in Emails : Cardinality(CustomersWith(email)) <= 1
  /\ \A t \in AllTasks :
       tasks[t].pc = "awaitPaymentIntentCreate" =>
         \E i \in CustomersWith(tasks[t].req.email) :
           provider.customers[i].id = tasks[t].customer

=============================================================================
